---- MODULE Spec2Model ----
(***************************************************************************)
(* EasyPD: the ingestion worker (device_comm.data_collection_worker), the  *)
(* transport queue, and the consumer side of PDViewerWindow (connect,      *)
(* disconnect, pause/resume, queue drain, batch tick, clear, CSV import).  *)
(*                                                                         *)
(* Time is counted in ticks of 0.1 s.  The caps of the program (queue      *)
(* capacity 1000, ui_log_limit 5000, ui_measurement_limit 10000) are       *)
(* scaled down to small numbers; the algorithms that use them are kept.    *)
(***************************************************************************)
EXTENDS Integers, Sequences, FiniteSets, TLC

VARIABLES
    \* ---- worker process (device_comm.data_collection_worker) ----
    wpc,                        \* position of the worker in its function
    w_payload,                  \* the payload built by the current iteration
    w_measurements,             \* the worker's local dict "measurements" (None: empty)
    w_raised,                   \* the worker function ended by raising
    w_cause,                    \* the exception that took the worker out of its loop, or None
    w_pause_read,               \* pause_flag.value as the current iteration read it, or NotRead
    handle,                     \* k2: "none" | "new" | "open" | "closed"
    last_measurement_timestamp, \* the worker's local of that name
    \* ---- shared between the two processes ----
    data_queue,                 \* multiprocessing.Queue(maxsize)
    stop_event,                 \* multiprocessing.Event
    pause_flag,                 \* multiprocessing.Value('i')
    clock,                      \* time.time(), in ticks of 0.1 s
    \* ---- consumer (PDViewerWindow) ----
    cpc,                        \* "idle" | "join" (inside collection_process.join)
    device_open,
    is_paused,
    start_time,
    log_records,
    log_index,
    measurement_records,
    measurement_index,
    raw_log_records,
    raw_measurement_records,
    pending_records,
    pending_measurements,
    table,                      \* the index cell of each row of the PD record table, top to bottom
    auto_pause_threshold_enabled,
    voltage_threshold,          \* in tenths of a volt
    current_threshold,          \* in tenths of an ampere
    auto_pause_metric,          \* "voltage" | "current"
    auto_pause_delay_seconds,   \* in ticks
    last_voltage,               \* _last_voltage, or Absent
    last_current,               \* _last_current, or Absent
    timer_active,               \* auto_pause_delay_timer.isActive()
    timer_expiry,               \* the clock at which the delay timer fires, or NoTime
    pending_metric,             \* _auto_pause_pending_metric, or None
    pending_threshold,          \* _auto_pause_pending_threshold, or Absent
    \* ---- history (not program state) ----
    decoded_log,                \* the packets the current worker has decoded, in decode order
    queued_log,                 \* the place in decoded_log of each packet payload in the queue
    dequeued_log,               \* the payloads taken from the current worker's queue, in that order
    call,                       \* the last call of a decoder function: its argument and result
    csv_file,                   \* the rows of the last exported file
    triggered,                  \* what made the current pause: "no" trigger, a "sample", the "timer"
    sent_times                  \* worker clock of each measurement payload enqueued by the current worker

vars == <<wpc, w_payload, w_measurements, w_raised, w_cause, w_pause_read, handle, last_measurement_timestamp,
          data_queue, stop_event, pause_flag, clock,
          cpc, device_open, is_paused, start_time,
          log_records, log_index, measurement_records, measurement_index,
          raw_log_records, raw_measurement_records,
          pending_records, pending_measurements, table,
          auto_pause_threshold_enabled, voltage_threshold, current_threshold,
          auto_pause_metric, auto_pause_delay_seconds,
          last_voltage, last_current, timer_active, timer_expiry,
          pending_metric, pending_threshold, triggered, sent_times,
          decoded_log, queued_log, dequeued_log, call, csv_file>>

workerVars == <<wpc, w_payload, w_measurements, w_raised, w_cause, w_pause_read, handle, last_measurement_timestamp, sent_times>>

consumerVars == <<cpc, device_open, is_paused, start_time,
                  log_records, log_index, measurement_records, measurement_index,
                  raw_log_records, raw_measurement_records,
                  pending_records, pending_measurements, table>>

\* the auto-pause settings
settingsVars == <<auto_pause_threshold_enabled, voltage_threshold, current_threshold,
                  auto_pause_metric, auto_pause_delay_seconds>>

\* the last observed sample, the delay timer and what it remembers
autoPauseVars == <<last_voltage, last_current, timer_active, timer_expiry,
                   pending_metric, pending_threshold, triggered>>

\* what is recorded about the order of the packets and the payloads
orderVars == <<decoded_log, queued_log, dequeued_log>>

\* the decoder functions called on their own, and the exported file
decoderVars == <<call>>
fileVars == <<csv_file>>

\* what the worker and the consumer leave alone when they run together
sideVars == <<orderVars, decoderVars, fileVars>>

storeVars == <<log_records, log_index, measurement_records, measurement_index,
               raw_log_records, raw_measurement_records,
               pending_records, pending_measurements, start_time, table>>

----------------------------------------------------------------------------
\* Bounds of the model

\* Queue(maxsize=1000), scaled
QueueMax == 2
\* ui_log_limit = 5000, scaled
ui_log_limit == 2
\* ui_measurement_limit = 10000, scaled
ui_measurement_limit == 2
\* the device delivers packets only while fewer than this many records and payloads exist
MaxRecords == 3
\* the largest number of rows of an imported CSV file
MaxImportRows == 3
\* the last tick of the clock
MaxClock == 5

\* 0.2 s, the measurement interval, in ticks
RateTicks == 2

----------------------------------------------------------------------------
\* Values

None == "None"

\* start_time is None
NoTime == 0 - 1

\* the iteration has not read pause_flag.value
NotRead == 0 - 1

\* What the decoder's object is to the program: a PD packet (field() = "pd")
\* carrying a PDO list, an RDO, or another message; or a general packet.
PdPackets == {"pdo", "rdo", "msg"}

IsPdPacket(pkg) == pkg \in PdPackets

ErrorPayload(text) == [data |-> None, measurements |-> None, error |-> text]

PacketPayload(pkg) == [data |-> pkg, measurements |-> None, error |-> None]

\* The measurement dicts a general packet can yield (voltage/current/power)
Samples == {"vi"}

\* a value that is None: a sample without the metric, no remembered threshold
Absent == 0 - 1

\* measurements.get("voltage") of a sample, in tenths of a volt: 5.2 V, 4.8 V,
\* and a sample without a voltage
SampleVolts == [vi |-> 52, low |-> 48, nov |-> Absent]

\* measurements.get("current") of a sample, in tenths of an ampere: 0.5 A,
\* -2.0 A (the direction is the sign), and 0.5 A again
SampleAmps == [vi |-> 5, low |-> 0 - 20, nov |-> 5]

\* voltage thresholds the settings dialog accepts (0 V to 20 V): 5.0 V and 20 V
Thresholds == {50, 200}

\* What one k2.read_data() + k2.auto_unpack() can do
ReadOutcomes == {<<o, None, None>> : o \in {"nothing", "read error", "other error"}}
                  \cup {<<"packet", pkg, None>> : pkg \in PdPackets}
                  \cup {<<"packet", "general", m>> : m \in Samples \cup {None}}

Full == Len(data_queue) >= QueueMax

\* The device has something to deliver (bound of the model)
CanDeliver == log_index + measurement_index + Len(data_queue) < MaxRecords

----------------------------------------------------------------------------
\* The worker: data_collection_worker(data_queue, stop_event, pause_flag, device_info)

\* what no step of the worker writes
SharedKept == UNCHANGED <<stop_event, pause_flag, clock, settingsVars, autoPauseVars,
                          decoderVars, fileVars>>

\* the same, for a step that is not recorded in the order variables
SharedUnchanged == SharedKept /\ UNCHANGED orderVars

\* k2 = WITRN_DEV(); _open_with_info(k2, device_info); a failure raises
\* into the outer except clause
W_Open ==
    /\ wpc = "open"
    /\ \E ok \in BOOLEAN :
          IF ok THEN /\ handle' = "open"
                     /\ wpc' = "loop"
                     /\ UNCHANGED w_cause
                ELSE /\ handle' = "new"
                     /\ wpc' = "conn_put"
                     /\ w_cause' = "open failed"
    /\ UNCHANGED <<w_payload, w_measurements, w_raised, w_pause_read,
                   last_measurement_timestamp, sent_times, data_queue>>
    /\ SharedUnchanged

\* while not stop_event.is_set():
W_LoopHead ==
    /\ wpc = "loop"
    /\ wpc' = IF stop_event THEN "close" ELSE "read"
    /\ UNCHANGED <<w_payload, w_measurements, w_raised, w_cause, w_pause_read, handle,
                   last_measurement_timestamp, sent_times, data_queue>>
    /\ SharedUnchanged

\* "continue": back to the while condition
AfterContinue == "loop"

\* a faulty variant: straight back to read_data, the while condition skipped
RetryWithoutCheck == "read"

\* after time.sleep(0.01): the while condition
AfterTransientError == "loop"

\* where the iteration goes once the packet and its measurements are known:
\* if is_pd_packet ... elif measurements ... (neither: the end of the loop body)
AfterRead(pkg, m) ==
    IF IsPdPacket(pkg) \/ m # None THEN "gate" ELSE "loop"

\* k2.read_data(); k2.auto_unpack(); the payload and the measurements dict;
\* the except clause of the iteration for a failed read
W_ReadOutcome(o) ==
    /\ wpc = "read"
    /\ CASE o[1] = "nothing" ->
               /\ wpc' = AfterContinue
               /\ UNCHANGED <<w_payload, w_measurements, w_cause>>
         [] o[1] = "read error" ->
               /\ wpc' = "err_put"
               /\ w_cause' = "read error"
               /\ UNCHANGED <<w_payload, w_measurements>>
         [] o[1] = "other error" ->
               /\ wpc' = "sleep"
               /\ UNCHANGED <<w_payload, w_measurements, w_cause>>
         [] OTHER ->
               /\ CanDeliver
               /\ wpc' = AfterRead(o[2], o[3])
               /\ w_payload' = PacketPayload(o[2])
               /\ w_measurements' = o[3]
               /\ UNCHANGED w_cause
    /\ w_pause_read' = NotRead
    /\ UNCHANGED <<w_raised, handle, last_measurement_timestamp, sent_times, data_queue>>
    /\ SharedKept

W_Read == \E o \in ReadOutcomes : W_ReadOutcome(o) /\ UNCHANGED orderVars

\* except Exception as exc: "read error" not in err_text: time.sleep(0.01)
W_Sleep ==
    /\ wpc = "sleep"
    /\ wpc' = AfterTransientError
    /\ UNCHANGED <<w_payload, w_measurements, w_raised, w_cause, w_pause_read, handle,
                   last_measurement_timestamp, sent_times, data_queue>>
    /\ SharedUnchanged

\* a faulty variant: no rate limit
IntervalIgnored(now, last) == TRUE

\* now - last_measurement_timestamp >= 0.2
IntervalElapsed(now, last) == now - last >= RateTicks

\* if pause_flag.value == 1: continue
PdPaused(flag) == flag = 1

\* a faulty variant: measurements are sent while paused
MeasurementAlways(flag) == TRUE

\* if pause_flag.value == 0:  # Only send measurements when not paused
MeasurementRunning(flag) == flag = 0

\* a faulty variant: the measurements replace the packet in the payload
OnlyMeasurements(payload, m) == [payload EXCEPT !.data = None, !.measurements = m]

\* payload["measurements"] = measurements, on the payload made at the read
WithMeasurements(payload, m) == [payload EXCEPT !.measurements = m]

\* if is_pd_packet: if pause_flag.value == 1: continue
\* elif measurements: if pause_flag.value == 0: now = time.time(); ...
W_Gate ==
    /\ wpc = "gate"
    /\ w_pause_read' = pause_flag
    /\ IF IsPdPacket(w_payload.data)
          THEN /\ wpc' = IF PdPaused(pause_flag) THEN AfterContinue ELSE "put"
               /\ UNCHANGED <<w_payload, last_measurement_timestamp>>
          ELSE IF MeasurementRunning(pause_flag)
                     /\ IntervalElapsed(clock, last_measurement_timestamp)
                  THEN /\ last_measurement_timestamp' = clock
                       /\ w_payload' = WithMeasurements(w_payload, w_measurements)
                       /\ wpc' = "put"
                  ELSE /\ wpc' = "loop"
                       /\ UNCHANGED <<w_payload, last_measurement_timestamp>>
    /\ UNCHANGED <<w_measurements, w_raised, w_cause, handle, sent_times, data_queue>>
    /\ SharedUnchanged

\* a faulty variant: a full queue gives up its oldest payload
PutDropsOldest(q, payload) ==
    IF Len(q) >= QueueMax THEN Append(Tail(q), payload) ELSE Append(q, payload)

\* a faulty variant: the newest payload goes to the head of the queue
PutFront(q, payload) == IF Len(q) >= QueueMax THEN q ELSE <<payload>> \o q

\* data_queue.put_nowait(payload); except queue.Full: pass
PutNowait(q, payload) == IF Len(q) >= QueueMax THEN q ELSE Append(q, payload)

W_PutPayload ==
    /\ wpc = "put"
    /\ data_queue' = PutNowait(data_queue, w_payload)
    /\ sent_times' = IF w_payload.measurements # None /\ ~Full
                        THEN Append(sent_times, last_measurement_timestamp)
                        ELSE sent_times
    /\ wpc' = "loop"
    /\ UNCHANGED <<w_payload, w_measurements, w_raised, w_cause, w_pause_read, handle,
                   last_measurement_timestamp>>
    /\ SharedKept

W_Put == W_PutPayload /\ UNCHANGED orderVars

\* except Exception as exc: if "read error" in err_text:
\*     data_queue.put_nowait({"error": "device_disconnected"}); break
\* queue.Full raised there leaves the loop for the outer except clause
W_ErrPut ==
    /\ wpc = "err_put"
    /\ IF Full THEN /\ wpc' = "conn_put"
                    /\ UNCHANGED data_queue
               ELSE /\ data_queue' = Append(data_queue, ErrorPayload("device_disconnected"))
                    /\ wpc' = "close"
    /\ UNCHANGED <<w_payload, w_measurements, w_raised, w_cause, w_pause_read, handle,
                   last_measurement_timestamp, sent_times>>
    /\ SharedUnchanged

\* a faulty variant: queue.Full raised in the except clause skips k2.close()
W_ConnPut_NoFinally ==
    /\ wpc = "conn_put"
    /\ IF Full THEN /\ w_raised' = TRUE
                    /\ wpc' = "ended"
                    /\ UNCHANGED data_queue
               ELSE /\ data_queue' = Append(data_queue, ErrorPayload("connection_failed"))
                    /\ wpc' = "close"
                    /\ UNCHANGED w_raised
    /\ UNCHANGED <<w_payload, w_measurements, w_cause, w_pause_read, handle,
                   last_measurement_timestamp, sent_times>>
    /\ SharedUnchanged

\* except Exception as exc: data_queue.put_nowait({"error": f"connection_failed: {exc}"})
\* queue.Full raised there leaves the function through the finally clause
W_ConnPut ==
    /\ wpc = "conn_put"
    /\ IF Full THEN /\ w_raised' = TRUE
                    /\ UNCHANGED data_queue
               ELSE /\ data_queue' = Append(data_queue, ErrorPayload("connection_failed"))
                    /\ UNCHANGED w_raised
    /\ wpc' = "close"
    /\ UNCHANGED <<w_payload, w_measurements, w_cause, w_pause_read, handle,
                   last_measurement_timestamp, sent_times>>
    /\ SharedUnchanged

\* finally: k2.close()
W_Close ==
    /\ wpc = "close"
    /\ handle' = "closed"
    /\ wpc' = "ended"
    /\ UNCHANGED <<w_payload, w_measurements, w_raised, w_cause, w_pause_read,
                   last_measurement_timestamp, sent_times, data_queue>>
    /\ SharedUnchanged

Worker ==
    /\ \/ W_Open
       \/ W_LoopHead
       \/ W_Read
       \/ W_Sleep
       \/ W_Gate
       \/ W_Put
       \/ W_ErrPut
       \/ W_ConnPut
       \/ W_Close
    /\ UNCHANGED consumerVars

\* time passes
Tick ==
    /\ clock < MaxClock
    /\ clock' = clock + 1
    /\ UNCHANGED <<workerVars, data_queue, stop_event, pause_flag, consumerVars, settingsVars, autoPauseVars, sideVars>>

----------------------------------------------------------------------------
\* The consumer: PDViewerWindow

IsPdoPacket(pkg) == pkg = "pdo"

IsRdoPacket(pkg) == pkg = "rdo"

\* the part of the window's state that handling payloads reads and writes
CState == [is_paused |-> is_paused,
           pause_flag |-> pause_flag,
           start_time |-> start_time,
           last_voltage |-> last_voltage,
           last_current |-> last_current,
           timer_active |-> timer_active,
           timer_expiry |-> timer_expiry,
           pending_metric |-> pending_metric,
           pending_threshold |-> pending_threshold,
           triggered |-> triggered,
           log_index |-> log_index,
           measurement_index |-> measurement_index,
           pending_records |-> pending_records,
           pending_measurements |-> pending_measurements]

\* _add_record_to_pending
AddRecordToPending(cs, record_type) ==
    [cs EXCEPT !.log_index = @ + 1,
               !.pending_records = Append(@, [index |-> cs.log_index + 1, type |-> record_type])]

\* _cancel_auto_pause_delay
CancelAutoPauseDelay(cs) ==
    [cs EXCEPT !.timer_active = FALSE, !.timer_expiry = NoTime,
               !.pending_metric = None, !.pending_threshold = Absent]

\* a faulty variant: every resume sets the start time
StartTimeAlways(start, now) == now

\* if self.start_time is None: self.start_time = time.time()
StartTimeOnResume(start, now) == IF start = NoTime THEN now ELSE start

\* a faulty variant: the shared pause flag is not written
ToggleWithoutFlag(cs) ==
    IF cs.is_paused
       THEN [CancelAutoPauseDelay(cs) EXCEPT
                !.is_paused = FALSE,
                !.start_time = StartTimeOnResume(cs.start_time, clock)]
       ELSE [CancelAutoPauseDelay(cs) EXCEPT !.is_paused = TRUE]

\* _toggle_collection, called from a handler (device_open holds there)
ToggleCollectionIn(cs) ==
    IF cs.is_paused
       THEN [CancelAutoPauseDelay(cs) EXCEPT
                !.is_paused = FALSE, !.pause_flag = 0,
                !.start_time = StartTimeOnResume(cs.start_time, clock)]
       ELSE [CancelAutoPauseDelay(cs) EXCEPT !.is_paused = TRUE, !.pause_flag = 1]

\* _apply_auto_pause_trigger: it calls _toggle_collection and shows the message
ApplyAutoPauseTrigger(cs) ==
    IF cs.is_paused THEN cs
    ELSE [ToggleCollectionIn(CancelAutoPauseDelay(cs)) EXCEPT !.triggered = "sample"]

\* a faulty variant: the delay is not honoured
TriggerWithoutDelay(cs, metric, threshold) == ApplyAutoPauseTrigger(cs)

\* a faulty variant: every breach starts the timer again
ScheduleRestarts(cs, metric, threshold) ==
    [cs EXCEPT !.pending_metric = metric, !.pending_threshold = threshold,
               !.timer_active = TRUE,
               !.timer_expiry = clock + auto_pause_delay_seconds]

\* _schedule_auto_pause_delay
ScheduleAutoPauseDelay(cs, metric, threshold) ==
    IF auto_pause_delay_seconds <= 0 THEN cs
    ELSE IF cs.timer_active THEN cs
    ELSE [cs EXCEPT !.pending_metric = metric, !.pending_threshold = threshold,
                    !.timer_active = TRUE,
                    !.timer_expiry = clock + auto_pause_delay_seconds]

\* a faulty variant: a value at the threshold counts as a breach
AtOrBelowThreshold(value, threshold) == value <= threshold

\* value < threshold
BelowThreshold(value, threshold) == value < threshold

\* a faulty variant: a value that is None is compared like a number
NeverNone(value) == FALSE

\* value is None
IsNone(value) == value = Absent

\* _check_and_apply_auto_pause (device_open holds in _poll_queue)
CheckAndApplyAutoPause(cs, voltage, current) ==
    IF ~auto_pause_threshold_enabled \/ cs.is_paused THEN CancelAutoPauseDelay(cs)
    ELSE LET metric == auto_pause_metric
             threshold == IF metric = "voltage" THEN voltage_threshold ELSE current_threshold
             value == IF metric = "voltage" THEN voltage ELSE current
         IN  IF IsNone(value) THEN CancelAutoPauseDelay(cs)
             ELSE IF BelowThreshold(value, threshold)
                     THEN IF auto_pause_delay_seconds <= 0
                             THEN ApplyAutoPauseTrigger(cs)
                             ELSE ScheduleAutoPauseDelay(cs, metric, threshold)
                     ELSE CancelAutoPauseDelay(cs)

\* abs(float(current)), None left as it is
AbsCurrent(current) ==
    IF current = Absent THEN Absent ELSE IF current < 0 THEN 0 - current ELSE current

\* a faulty variant: a breach toggles the collection, paused or not
HandleMeasurementsToggling(cs, payload) ==
    IF payload.measurements = None THEN cs
    ELSE LET voltage == SampleVolts[payload.measurements]
             current == AbsCurrent(SampleAmps[payload.measurements])
             c0 == [cs EXCEPT !.last_voltage = voltage, !.last_current = current]
             value == IF auto_pause_metric = "voltage" THEN voltage ELSE current
             threshold == IF auto_pause_metric = "voltage" THEN voltage_threshold
                                                           ELSE current_threshold
             c1 == IF auto_pause_threshold_enabled /\ ~IsNone(value)
                        /\ BelowThreshold(value, threshold)
                      THEN ToggleCollectionIn(c0)
                      ELSE c0
         IN  IF ~c1.is_paused
                THEN [c1 EXCEPT !.measurement_index = @ + 1,
                                !.pending_measurements =
                                    Append(@, [index |-> c1.measurement_index + 1,
                                               type |-> "MEASUREMENT"])]
                ELSE c1

\* the measurement part of _handle_payload (device_open holds in _poll_queue)
HandleMeasurements(cs, payload) ==
    IF payload.measurements = None THEN cs
    ELSE LET voltage == SampleVolts[payload.measurements]
             current == AbsCurrent(SampleAmps[payload.measurements])
             c0 == [cs EXCEPT !.last_voltage = voltage, !.last_current = current]
             c1 == IF ~c0.is_paused
                      THEN CheckAndApplyAutoPause(c0, voltage, current)
                      ELSE c0
         IN  IF ~c1.is_paused
                THEN [c1 EXCEPT !.measurement_index = @ + 1,
                                !.pending_measurements =
                                    Append(@, [index |-> c1.measurement_index + 1,
                                               type |-> "MEASUREMENT"])]
                ELSE c1

\* a faulty variant: the packet part does not look at the pause
HandlePacketPaused(cs, payload) ==
    IF payload.data = None
       THEN cs
       ELSE LET c1 == IF IsPdoPacket(payload.data) THEN AddRecordToPending(cs, "PDO") ELSE cs
            IN  IF IsRdoPacket(payload.data) THEN AddRecordToPending(c1, "RDO") ELSE c1

\* the packet part of _handle_payload
HandlePacket(cs, payload) ==
    IF cs.is_paused \/ payload.data = None
       THEN cs
       ELSE LET c1 == IF IsPdoPacket(payload.data) THEN AddRecordToPending(cs, "PDO") ELSE cs
            IN  IF IsRdoPacket(payload.data) THEN AddRecordToPending(c1, "RDO") ELSE c1

\* _handle_payload of a payload that carries no error
HandlePayload(cs, payload) == HandlePacket(HandleMeasurements(cs, payload), payload)

\* the loop of _poll_queue over the payloads in the queue: it runs until the
\* queue is empty or until an error payload starts the disconnect
RECURSIVE Drain(_, _)
Drain(cs, q) ==
    IF q = <<>> THEN [cs |-> cs, rest |-> <<>>, error |-> FALSE]
    ELSE IF Head(q).error # None THEN [cs |-> cs, rest |-> Tail(q), error |-> TRUE]
    ELSE Drain(HandlePayload(cs, Head(q)), Tail(q))

\* _poll_queue (every 50 ms) with r what its loop over the queue has done; an
\* error payload goes to _show_error, which calls _disconnect_device:
\* stop_event.set() and collection_process.join(timeout=2)
PollQueueOf(r) ==
    /\ cpc = "idle"
    /\ device_open
    /\ LET error == r.error IN
          /\ log_index' = r.cs.log_index
          /\ measurement_index' = r.cs.measurement_index
          /\ pending_records' = r.cs.pending_records
          /\ pending_measurements' = r.cs.pending_measurements
          /\ is_paused' = r.cs.is_paused
          /\ pause_flag' = r.cs.pause_flag
          /\ start_time' = r.cs.start_time
          /\ last_voltage' = r.cs.last_voltage
          /\ last_current' = r.cs.last_current
          /\ timer_active' = r.cs.timer_active
          /\ timer_expiry' = r.cs.timer_expiry
          /\ pending_metric' = r.cs.pending_metric
          /\ pending_threshold' = r.cs.pending_threshold
          /\ triggered' = r.cs.triggered
          /\ data_queue' = r.rest
          /\ stop_event' = (stop_event \/ error)
          /\ cpc' = IF error THEN "join" ELSE "idle"
    /\ UNCHANGED <<device_open, log_records, measurement_records,
                   raw_log_records, raw_measurement_records, table>>
    /\ UNCHANGED <<workerVars, clock, settingsVars, sideVars>>

\* _poll_queue: the loop over the payloads, each handled by _handle_payload
PollQueue == PollQueueOf(Drain(CState, data_queue))

\* a faulty variant: the batch replaces the raw buffer
ReplaceRaw(raw, to_add) == to_add

\* self.raw_log_records.extend(records_to_add)
ExtendRaw(raw, to_add) == raw \o to_add

\* the visible buffer after one batch: the roll-over of _batch_update_ui
RollOver(visible, to_add, limit) ==
    LET remove_count == Len(visible) + Len(to_add) - limit
        kept == IF Len(visible) >= limit /\ remove_count > 0
                   THEN SubSeq(visible, remove_count + 1, Len(visible))
                   ELSE visible
    IN  kept \o to_add

\* the index cells of the rows that show the given records, one row a record
IndexColumn(records) == [i \in 1..Len(records) |-> records[i].index]

\* a faulty variant in which the rows at the top go
RemoveFirstRows(rows, count) == SubSeq(rows, Len(rows) - count + 1, Len(rows))

\* self.table.setRowCount(count): the rows after the first count go
SetRowCount(rows, count) == SubSeq(rows, 1, count)

\* the table after one batch of _batch_update_ui: on a roll-over
\* setRowCount(max(0, rowCount() - remove_count)), then _add_record_to_table
\* puts a row with str(record["index"]) at the end for each record
TableAfterBatch(rows, visible, to_add, limit) ==
    LET remove_count == Len(visible) + Len(to_add) - limit
        kept == IF Len(visible) >= limit /\ remove_count > 0
                   THEN SetRowCount(rows, IF Len(rows) > remove_count
                                             THEN Len(rows) - remove_count ELSE 0)
                   ELSE rows
    IN  kept \o IndexColumn(to_add)

\* _batch_update_ui (every 200 ms)
BatchUpdateUi ==
    /\ cpc = "idle"
    /\ pending_records # <<>> \/ pending_measurements # <<>>
    /\ raw_log_records' = ExtendRaw(raw_log_records, pending_records)
    /\ log_records' = IF pending_records # <<>>
                         THEN RollOver(log_records, pending_records, ui_log_limit)
                         ELSE log_records
    /\ table' = IF pending_records # <<>>
                    THEN TableAfterBatch(table, log_records, pending_records, ui_log_limit)
                    ELSE table
    /\ pending_records' = <<>>
    /\ raw_measurement_records' = ExtendRaw(raw_measurement_records, pending_measurements)
    /\ measurement_records' = IF pending_measurements # <<>>
                                 THEN RollOver(measurement_records, pending_measurements,
                                               ui_measurement_limit)
                                 ELSE measurement_records
    /\ pending_measurements' = <<>>
    /\ UNCHANGED <<cpc, device_open, is_paused, start_time, log_index, measurement_index>>
    /\ UNCHANGED <<workerVars, data_queue, stop_event, pause_flag, clock, settingsVars, autoPauseVars, sideVars>>

\* _reset_records_state
ResetRecordsState ==
    /\ log_records' = <<>>
    /\ log_index' = 0
    /\ measurement_records' = <<>>
    /\ measurement_index' = 0
    /\ raw_log_records' = <<>>
    /\ raw_measurement_records' = <<>>
    /\ pending_records' = <<>>
    /\ pending_measurements' = <<>>
    /\ start_time' = NoTime
    /\ table' = <<>>

\* _confirm_manual_clear answered Yes: _clear_records(confirm=False)
ManualClear ==
    /\ cpc = "idle"
    /\ ResetRecordsState
    /\ UNCHANGED <<cpc, device_open, is_paused>>
    /\ UNCHANGED <<workerVars, data_queue, stop_event, pause_flag, clock, settingsVars, autoPauseVars, sideVars>>

\* _toggle_connection -> _connect_device; with records on display the operator
\* has answered Yes to clearing them (No returns without a change)
ConnectDevice ==
    /\ cpc = "idle"
    /\ ~device_open
    /\ IF log_records # <<>> THEN ResetRecordsState ELSE UNCHANGED storeVars
    /\ data_queue' = <<>>
    /\ stop_event' = FALSE
    /\ pause_flag' = 1
    /\ wpc' = "open"
    /\ w_payload' = PacketPayload(None)
    /\ w_measurements' = None
    /\ w_raised' = FALSE
    /\ w_cause' = None
    /\ w_pause_read' = NotRead
    /\ handle' = "new"
    /\ last_measurement_timestamp' = 0
    /\ sent_times' = <<>>
    /\ device_open' = TRUE
    /\ decoded_log' = <<>>
    /\ queued_log' = <<>>
    /\ dequeued_log' = <<>>
    /\ UNCHANGED <<cpc, is_paused, clock, settingsVars, autoPauseVars, decoderVars, fileVars>>

\* _toggle_connection -> _disconnect_device, up to the join
DisconnectDevice ==
    /\ cpc = "idle"
    /\ device_open
    /\ stop_event' = TRUE
    /\ cpc' = "join"
    /\ UNCHANGED <<device_open, is_paused, storeVars>>
    /\ UNCHANGED <<workerVars, data_queue, pause_flag, clock, settingsVars, autoPauseVars, sideVars>>

\* a faulty variant: the timer is left pending
KeepTimer == UNCHANGED <<timer_active, timer_expiry, pending_metric, pending_threshold>>

\* _cancel_auto_pause_delay, as a step of an action
CancelTimer ==
    /\ timer_active' = FALSE
    /\ timer_expiry' = NoTime
    /\ pending_metric' = None
    /\ pending_threshold' = Absent

\* the worker after collection_process.join(timeout=2): it has ended, or it is
\* still alive at the timeout and is terminated
AfterJoin(pc) == IF pc \in {"ended", "killed", "none"} THEN {pc} ELSE {"killed"}

\* a faulty variant: the payloads stay in the queue
LeaveQueue(q) == q

\* while True: self.data_queue.get_nowait(), until queue.Empty
DrainQueue(q) == <<>>

\* _disconnect_device from the return of the join: terminate, drain the queue,
\* device_open = False, is_paused = True
JoinReturn ==
    /\ cpc = "join"
    /\ wpc' \in AfterJoin(wpc)
    /\ data_queue' = DrainQueue(data_queue)
    /\ device_open' = FALSE
    /\ is_paused' = TRUE
    /\ cpc' = "idle"
    /\ CancelTimer
    /\ triggered' = "no"
    /\ UNCHANGED storeVars
    /\ UNCHANGED <<w_payload, w_measurements, w_raised, w_cause, w_pause_read, handle,
                   last_measurement_timestamp, sent_times>>
    /\ UNCHANGED <<stop_event, pause_flag, clock, settingsVars, last_voltage, last_current, sideVars>>

\* if not self.device_open: return
ToggleEnabled(open) == open

\* _toggle_collection
ToggleCollection ==
    /\ cpc = "idle"
    /\ ToggleEnabled(device_open)
    /\ IF is_paused
          THEN /\ is_paused' = FALSE
               /\ pause_flag' = 0
               /\ start_time' = StartTimeOnResume(start_time, clock)
          ELSE /\ is_paused' = TRUE
               /\ pause_flag' = 1
               /\ UNCHANGED start_time
    /\ CancelTimer
    /\ triggered' = "no"
    /\ UNCHANGED <<cpc, device_open, log_records, log_index, measurement_records,
                   measurement_index, raw_log_records, raw_measurement_records,
                   pending_records, pending_measurements, table>>
    /\ UNCHANGED <<workerVars, data_queue, stop_event, clock, settingsVars,
                   last_voltage, last_current, sideVars>>

\* The rows of a CSV file as _import_csv takes them: a measurement row (columns
\* 6..8 filled), a PD row, or a row it skips.  A file is a sequence of row kinds;
\* the rows of a kind are numbered 1, 2, ... in file order, as _export_csv
\* writes them.
RowKinds == {"PDO", "MEASUREMENT", "invalid"}

\* a file: the kinds of its data rows, in file order
ImportFiles == UNION {[1..n -> RowKinds] : n \in 0..MaxImportRows}

\* the number of rows of kind k among the first n rows of the file: the rows
\* of a kind carry the indices 1, 2, ... in file order
RECURSIVE CountKind(_, _, _)
CountKind(file, k, n) ==
    IF n = 0 THEN 0
    ELSE CountKind(file, k, n - 1) + (IF file[n] = k THEN 1 ELSE 0)

FileRows(file) == [n \in 1..Len(file) |-> [index |-> CountKind(file, file[n], n), type |-> file[n]]]

\* int(row[0]) of the rows of a file whose rows of a kind count down to 1
FileRowsReordered(file) ==
    [n \in 1..Len(file) |->
        [index |-> CountKind(file, file[n], Len(file)) - CountKind(file, file[n], n) + 1,
         type |-> file[n]]]

\* a faulty variant: the counter follows the last row
LastIndex(a, b) == b

Max(a, b) == IF a >= b THEN a ELSE b

\* the visible buffer takes an imported record while it is below the limit
ImportVisible(visible, record, limit) ==
    IF Len(visible) < limit THEN Append(visible, record) ELSE visible

\* the row loop of _import_csv over the store st
RECURSIVE ImportLoop(_, _)
ImportLoop(st, rows) ==
    IF rows = <<>> THEN st
    ELSE LET row == Head(rows) IN
         IF row.type = "invalid" THEN ImportLoop(st, Tail(rows))
         ELSE IF row.type = "MEASUREMENT"
         THEN ImportLoop([st EXCEPT
                            !.raw_measurement_records = Append(@, row),
                            !.measurement_records =
                                ImportVisible(@, row, ui_measurement_limit),
                            !.measurement_index = Max(@, row.index)],
                         Tail(rows))
         ELSE ImportLoop([st EXCEPT
                            !.raw_log_records = Append(@, row),
                            !.log_records = ImportVisible(@, row, ui_log_limit),
                            !.log_index = Max(@, row.index)],
                         Tail(rows))

EmptyStore == [log_records |-> <<>>, log_index |-> 0,
               measurement_records |-> <<>>, measurement_index |-> 0,
               raw_log_records |-> <<>>, raw_measurement_records |-> <<>>]

\* the record store after _reset_records_state and the row loop, for each file
ImportResults == {ImportLoop(EmptyStore, FileRows(file)) : file \in ImportFiles}

\* the stores the import of a file with reordered rows can leave
ImportResultsReordered ==
    {ImportLoop(EmptyStore, FileRowsReordered(file)) : file \in ImportFiles}

\* _import_csv of a chosen file: _reset_records_state, then the row loop
ImportFrom(results) ==
    /\ cpc = "idle"
    /\ \E st \in results :
             /\ log_records' = st.log_records
             /\ log_index' = st.log_index
             /\ measurement_records' = st.measurement_records
             /\ measurement_index' = st.measurement_index
             /\ raw_log_records' = st.raw_log_records
             /\ raw_measurement_records' = st.raw_measurement_records
             /\ table' = IndexColumn(st.log_records)
    /\ pending_records' = <<>>
    /\ pending_measurements' = <<>>
    /\ start_time' = NoTime
    /\ UNCHANGED <<cpc, device_open, is_paused>>
    /\ UNCHANGED <<workerVars, data_queue, stop_event, pause_flag, clock, settingsVars, autoPauseVars, sideVars>>

\* _import_csv of a file written by _export_csv
ImportCsv == ImportFrom(ImportResults)

\* _import_csv of a file written by _export_csv, or of one with reordered rows
ImportAnyCsv == ImportFrom(ImportResults \cup ImportResultsReordered)

----------------------------------------------------------------------------
\* no decoder function has been called
NoCall == [fn |-> "none", arg |-> None, result |-> None, done |-> FALSE]

\* The system

\* PDViewerWindow.__init__ but for the records: no device, no worker process
InitNoDevice ==
    /\ wpc = "none"
    /\ w_payload = PacketPayload(None)
    /\ w_measurements = None
    /\ w_raised = FALSE
    /\ w_cause = None
    /\ w_pause_read = NotRead
    /\ auto_pause_threshold_enabled = FALSE
    /\ voltage_threshold = 0
    /\ current_threshold = 0
    /\ auto_pause_metric = "voltage"
    /\ auto_pause_delay_seconds = 0
    /\ last_voltage = Absent
    /\ last_current = Absent
    /\ timer_active = FALSE
    /\ timer_expiry = NoTime
    /\ pending_metric = None
    /\ pending_threshold = Absent
    /\ triggered = "no"
    /\ handle = "none"
    /\ last_measurement_timestamp = 0
    /\ data_queue = <<>>
    /\ stop_event = FALSE
    /\ pause_flag = 1
    /\ clock = RateTicks
    /\ cpc = "idle"
    /\ device_open = FALSE
    /\ is_paused = TRUE
    /\ pending_records = <<>>
    /\ pending_measurements = <<>>
    /\ sent_times = <<>>
    /\ decoded_log = <<>>
    /\ queued_log = <<>>
    /\ dequeued_log = <<>>
    /\ csv_file = <<>>

\* PDViewerWindow.__init__: no records
InitWindow ==
    /\ InitNoDevice
    /\ start_time = NoTime
    /\ log_records = <<>>
    /\ log_index = 0
    /\ measurement_records = <<>>
    /\ measurement_index = 0
    /\ raw_log_records = <<>>
    /\ raw_measurement_records = <<>>
    /\ table = <<>>

\* the window, and no decoder function called on its own
Init == InitWindow /\ call = NoCall

\* The state right after the first _connect_device: a fresh queue, stop event
\* and pause flag, and the worker process started
InitConnected ==
    /\ wpc = "open"
    /\ w_payload = PacketPayload(None)
    /\ w_measurements = None
    /\ w_raised = FALSE
    /\ w_cause = None
    /\ w_pause_read = NotRead
    /\ auto_pause_threshold_enabled = FALSE
    /\ voltage_threshold = 0
    /\ current_threshold = 0
    /\ auto_pause_metric = "voltage"
    /\ auto_pause_delay_seconds = 0
    /\ last_voltage = Absent
    /\ last_current = Absent
    /\ timer_active = FALSE
    /\ timer_expiry = NoTime
    /\ pending_metric = None
    /\ pending_threshold = Absent
    /\ triggered = "no"
    /\ handle = "new"
    /\ last_measurement_timestamp = 0
    /\ data_queue = <<>>
    /\ stop_event = FALSE
    /\ pause_flag = 1
    /\ clock = RateTicks
    /\ cpc = "idle"
    /\ device_open = TRUE
    /\ is_paused = TRUE
    /\ start_time = NoTime
    /\ log_records = <<>>
    /\ log_index = 0
    /\ measurement_records = <<>>
    /\ measurement_index = 0
    /\ raw_log_records = <<>>
    /\ raw_measurement_records = <<>>
    /\ table = <<>>
    /\ pending_records = <<>>
    /\ pending_measurements = <<>>
    /\ sent_times = <<>>
    /\ decoded_log = <<>>
    /\ queued_log = <<>>
    /\ dequeued_log = <<>>
    /\ call = NoCall
    /\ csv_file = <<>>

\* ---- the two processes together ----

Next ==
    \/ Worker
    \/ Tick
    \/ PollQueue
    \/ BatchUpdateUi
    \/ ConnectDevice
    \/ DisconnectDevice
    \/ JoinReturn
    \/ ToggleCollection

Spec == Init /\ [][Next]_vars

\* The poll timer keeps firing, a join returns within its timeout, and the
\* worker process keeps running while it is alive.
FairSpec ==
    /\ Spec
    /\ WF_vars(PollQueue)
    /\ WF_vars(JoinReturn)
    /\ WF_vars(Worker)

\* ---- the worker against the consumer's use of the queue and the flags ----

\* _poll_queue as the worker sees it: the payloads in the queue are taken
TakePayloads ==
    /\ cpc = "idle"
    /\ device_open
    /\ data_queue # <<>>
    /\ data_queue' = <<>>
    /\ UNCHANGED <<workerVars, stop_event, pause_flag, clock, consumerVars, settingsVars, autoPauseVars, sideVars>>

NextWorker ==
    \/ Worker
    \/ Tick
    \/ TakePayloads
    \/ ConnectDevice
    \/ DisconnectDevice
    \/ JoinReturn
    \/ ToggleCollection

SpecWorker == InitConnected /\ [][NextWorker]_vars

\* ---- the order of the payloads of one worker ----

\* at most this many packets are decoded by one worker
MaxDecoded == 3

\* what a read gives here: a PD packet, a packet with a sample, a read error
OrderOutcomes ==
    {<<"packet", "pdo", None>>, <<"packet", "general", "vi">>,
     <<"read error", None, None>>}

\* the read, with the decoded packet entered in decoded_log
W_ReadLogged ==
    /\ Len(decoded_log) < MaxDecoded
    /\ \E o \in OrderOutcomes :
          /\ W_ReadOutcome(o)
          /\ decoded_log' = IF o[1] = "packet" THEN Append(decoded_log, o[2])
                                               ELSE decoded_log
    /\ UNCHANGED <<queued_log, dequeued_log>>

\* the put, with the place of the payload's packet entered as the payload is
W_PutLogged ==
    /\ W_PutPayload
    /\ queued_log' = PutNowait(queued_log, Len(decoded_log))
    /\ UNCHANGED <<decoded_log, dequeued_log>>

WorkerLogged ==
    /\ \/ W_Open
       \/ W_LoopHead
       \/ W_ReadLogged
       \/ W_Gate
       \/ W_PutLogged
       \/ W_ErrPut
       \/ W_ConnPut
       \/ W_Close
    /\ UNCHANGED consumerVars

\* payload = self.data_queue.get_nowait(), one turn of the loop of _poll_queue:
\* the payload at the head leaves the queue
GetNowait ==
    /\ cpc = "idle"
    /\ device_open
    /\ data_queue # <<>>
    /\ data_queue' = Tail(data_queue)
    /\ IF Head(data_queue).error = None
          THEN /\ dequeued_log' = Append(dequeued_log,
                                         <<Head(queued_log), Head(data_queue).data>>)
               /\ queued_log' = Tail(queued_log)
          ELSE UNCHANGED <<queued_log, dequeued_log>>
    /\ UNCHANGED decoded_log
    /\ UNCHANGED <<workerVars, stop_event, pause_flag, clock, consumerVars, settingsVars,
                   autoPauseVars, decoderVars, fileVars>>

NextOrder ==
    \/ WorkerLogged
    \/ Tick
    \/ GetNowait
    \/ ConnectDevice
    \/ DisconnectDevice
    \/ JoinReturn
    \/ ToggleCollection

SpecOrder == InitConnected /\ [][NextOrder]_vars

\* ---- the consumer against what a worker can put on the queue ----

\* float("nan"): it is neither below nor above any number, and no number is
\* below it
NaN == 0 - 999

\* max(0.0, delay_seconds): 0.0 for nan, which is not above 0.0
StoredDelay(delay) == IF delay = NaN \/ delay < 0 THEN 0 ELSE delay

\* metric if metric in {"voltage", "current"} else "voltage"
MetricKey(metric) == IF metric \in {"voltage", "current"} THEN metric ELSE "voltage"

\* _apply_auto_pause_settings
StoreSettings(enabled, metric, voltage, current, delay) ==
    /\ auto_pause_threshold_enabled' = enabled
    /\ auto_pause_metric' = MetricKey(metric)
    /\ voltage_threshold' = voltage
    /\ current_threshold' = current
    /\ auto_pause_delay_seconds' = StoredDelay(delay)
    /\ IF ~enabled
          THEN CancelTimer
          ELSE UNCHANGED <<timer_active, timer_expiry, pending_metric, pending_threshold>>

\* _apply_auto_pause_settings with the values _show_auto_pause_settings accepted
ApplySettings(enabled, metric, voltage, current, delay) ==
    /\ cpc = "idle"
    /\ StoreSettings(enabled, metric, voltage, current, delay)
    /\ UNCHANGED <<last_voltage, last_current, triggered, sideVars>>
    /\ UNCHANGED <<workerVars, data_queue, stop_event, pause_flag, clock, consumerVars>>

\* the dialog accepted with the voltage metric and no delay, as they are at the start
ApplyAutoPauseSettings ==
    \E enabled \in BOOLEAN, threshold \in Thresholds :
        ApplySettings(enabled, "voltage", threshold, 0, 0)

\* the payloads of lines 137-141 and 201
WorkerPayloads ==
    {PacketPayload(pkg) : pkg \in PdPackets}
      \cup {[data |-> "general", measurements |-> m, error |-> None] : m \in Samples}

\* an iteration of the worker that reaches put_nowait(payload)
WorkerEmits ==
    /\ wpc = "open"
    /\ CanDeliver
    /\ \E payload \in WorkerPayloads : data_queue' = PutNowait(data_queue, payload)
    /\ UNCHANGED <<workerVars, stop_event, pause_flag, clock, consumerVars, settingsVars, autoPauseVars, sideVars>>

\* the worker leaves through one of its except clauses and the finally clause
WorkerFails ==
    /\ wpc = "open"
    /\ \E text \in {"device_disconnected", "connection_failed"} :
          data_queue' = PutNowait(data_queue, ErrorPayload(text))
    /\ wpc' = "ended"
    /\ handle' = "closed"
    /\ UNCHANGED <<w_payload, w_measurements, w_raised, w_cause, w_pause_read,
                   last_measurement_timestamp, sent_times>>
    /\ UNCHANGED <<stop_event, pause_flag, clock, consumerVars, settingsVars, autoPauseVars, sideVars>>

\* the worker sees the stop event and leaves through the finally clause
WorkerStops ==
    /\ wpc = "open"
    /\ stop_event
    /\ wpc' = "ended"
    /\ handle' = "closed"
    /\ UNCHANGED <<w_payload, w_measurements, w_raised, w_cause, w_pause_read,
                   last_measurement_timestamp, sent_times>>
    /\ UNCHANGED <<data_queue, stop_event, pause_flag, clock, consumerVars, settingsVars, autoPauseVars, sideVars>>

NextConsumer ==
    \/ WorkerEmits
    \/ WorkerFails
    \/ WorkerStops
    \/ PollQueue
    \/ BatchUpdateUi
    \/ ManualClear
    \/ ImportCsv
    \/ ApplyAutoPauseSettings
    \/ ConnectDevice
    \/ DisconnectDevice
    \/ JoinReturn
    \/ ToggleCollection

SpecConsumer == Init /\ [][NextConsumer]_vars

\* ---- auto-pause: the consumer against the samples a worker can send ----

\* the samples of the measurement payloads
AutoPauseSamples == {"vi", "low", "nov"}

\* voltage thresholds of the dialog: 5.0 V
DialogThresholds == {50}

\* current thresholds of the dialog: 2.0 A
DialogCurrentThresholds == {20}

\* delays of the dialog, in ticks: none, 0.2 s
DialogDelays == {0, 2}

\* an iteration of the worker that reaches put_nowait(payload) with measurements
WorkerSamples ==
    /\ wpc = "open"
    /\ CanDeliver
    /\ \E m \in AutoPauseSamples :
          data_queue' = PutNowait(data_queue, [data |-> "general", measurements |-> m,
                                               error |-> None])
    /\ UNCHANGED <<workerVars, stop_event, pause_flag, clock, consumerVars, settingsVars,
                   autoPauseVars, sideVars>>

\* _show_auto_pause_settings accepted: _apply_auto_pause_settings with its values
ShowAutoPauseSettings ==
    \E enabled \in BOOLEAN, metric \in {"voltage", "current"},
       voltage \in DialogThresholds, current \in DialogCurrentThresholds,
       delay \in DialogDelays :
        ApplySettings(enabled, metric, voltage, current, delay)

\* _execute_pending_auto_pause: the single-shot delay timer fires
ExecutePendingAutoPause ==
    /\ cpc = "idle"
    /\ timer_active
    /\ clock >= timer_expiry
    /\ LET metric == pending_metric
           threshold == pending_threshold
           value == IF metric = "voltage" THEN last_voltage ELSE last_current
           cs == CancelAutoPauseDelay(CState)
           r == IF metric = None \/ threshold = Absent \/ IsNone(value)
                   THEN cs
                   ELSE IF BelowThreshold(value, threshold) /\ ToggleEnabled(device_open)
                           THEN ApplyAutoPauseTrigger(cs)
                           ELSE cs
       IN  /\ is_paused' = r.is_paused
           /\ pause_flag' = r.pause_flag
           /\ start_time' = r.start_time
           /\ triggered' = IF r.is_paused /\ ~is_paused THEN "timer" ELSE triggered
           /\ timer_active' = r.timer_active
           /\ timer_expiry' = r.timer_expiry
           /\ pending_metric' = r.pending_metric
           /\ pending_threshold' = r.pending_threshold
    /\ UNCHANGED <<cpc, device_open, log_records, log_index, measurement_records,
                   measurement_index, raw_log_records, raw_measurement_records,
                   pending_records, pending_measurements, table, last_voltage, last_current>>
    /\ UNCHANGED <<workerVars, data_queue, stop_event, clock, settingsVars, sideVars>>

NextAutoPause ==
    \/ WorkerSamples
    \/ WorkerFails
    \/ WorkerStops
    \/ Tick
    \/ PollQueue
    \/ ExecutePendingAutoPause
    \/ ShowAutoPauseSettings
    \/ ManualClear
    \/ ConnectDevice
    \/ DisconnectDevice
    \/ JoinReturn
    \/ ToggleCollection

SpecAutoPause == Init /\ [][NextAutoPause]_vars

\* ---- a session: the consumer against the clock ----

\* an iteration of the worker that reaches put_nowait(payload) with a sample
WorkerDelivers ==
    /\ wpc = "open"
    /\ CanDeliver
    /\ data_queue' = PutNowait(data_queue, [data |-> "general", measurements |-> "vi",
                                            error |-> None])
    /\ UNCHANGED <<workerVars, stop_event, pause_flag, clock, consumerVars, settingsVars,
                   autoPauseVars, sideVars>>

NextSession ==
    \/ WorkerDelivers
    \/ WorkerFails
    \/ WorkerStops
    \/ Tick
    \/ PollQueue
    \/ ManualClear
    \/ ImportCsv
    \/ ApplyAutoPauseSettings
    \/ ConnectDevice
    \/ DisconnectDevice
    \/ JoinReturn
    \/ ToggleCollection

SpecSession == Init /\ [][NextSession]_vars

\* ---- the record store: the consumer with auto-pause off, any file imported ----

NextStore ==
    \/ WorkerEmits
    \/ WorkerFails
    \/ WorkerStops
    \/ PollQueue
    \/ BatchUpdateUi
    \/ ManualClear
    \/ ImportAnyCsv
    \/ ConnectDevice
    \/ DisconnectDevice
    \/ JoinReturn
    \/ ToggleCollection

SpecStore == Init /\ [][NextStore]_vars

\* ---- the decoder functions of pd_decoder.py, each called on its own ----

\* what no decoder call touches
DecoderUnchanged ==
    UNCHANGED <<workerVars, data_queue, stop_event, pause_flag, clock, consumerVars,
                settingsVars, autoPauseVars, orderVars, fileVars>>

\* the longest string given to _bits_to_hex
MaxBits == 6

\* the characters of those strings: the two bits, a digit that is no bit, and
\* the separator and the sign that int() accepts
BitChars == {"0", "1", "2", "_", "-"}

\* the strings of at most n characters
RECURSIVE StringsUpTo(_)
StringsUpTo(n) ==
    IF n = 0 THEN {<<>>}
    ELSE LET shorter == StringsUpTo(n - 1) IN
         shorter \cup {Append(t, c) : t \in {u \in shorter : Len(u) = n - 1}, c \in BitChars}

\* the digits of an int() literal in base 2: bits, single underscores between them
ValidDigits(b) ==
    /\ b # <<>>
    /\ \A i \in 1..Len(b) : b[i] \in {"0", "1", "_"}
    /\ b[1] # "_"
    /\ b[Len(b)] # "_"
    /\ \A i \in 1..(Len(b) - 1) : ~(b[i] = "_" /\ b[i + 1] = "_")

\* the value of the digits b in base 2, underscores skipped
RECURSIVE DigitsValue(_)
DigitsValue(b) ==
    IF b = <<>> THEN 0
    ELSE LET front == SubSeq(b, 1, Len(b) - 1) IN
         IF b[Len(b)] = "_" THEN DigitsValue(front)
         ELSE 2 * DigitsValue(front) + (IF b[Len(b)] = "1" THEN 1 ELSE 0)

\* int(bit_str, 2): the value, or ValueError
IntBase2(bit_str) ==
    LET negative == bit_str # <<>> /\ bit_str[1] = "-"
        digits == IF negative THEN Tail(bit_str) ELSE bit_str
    IN  IF ValidDigits(digits)
           THEN [ok |-> TRUE,
                 value |-> IF negative THEN 0 - DigitsValue(digits) ELSE DigitsValue(digits)]
           ELSE [ok |-> FALSE, value |-> 0]

\* the digits of the X presentation type
HexChars == <<"0", "1", "2", "3", "4", "5", "6", "7", "8", "9", "A", "B", "C", "D", "E", "F">>

\* the magnitude n in base 16, without padding
RECURSIVE HexDigits(_)
HexDigits(n) ==
    IF n < 16 THEN <<HexChars[n + 1]>>
    ELSE Append(HexDigits(n \div 16), HexChars[(n % 16) + 1])

Zeros(n) == [i \in 1..n |-> "0"]

\* format(value, "0{width}X"): the sign, then zeros up to the width, then the digits
FormatHex(value, width) ==
    LET sign == IF value < 0 THEN <<"-">> ELSE <<>>
        digits == HexDigits(IF value < 0 THEN 0 - value ELSE value)
        fill == width - Len(sign) - Len(digits)
    IN  sign \o Zeros(IF fill > 0 THEN fill ELSE 0) \o digits

\* width = (len(bit_str) + 3) // 4
HexWidth(bit_str) == (Len(bit_str) + 3) \div 4

\* PDParser._bits_to_hex
BitsToHex(bit_str) ==
    IF bit_str = <<>> THEN <<>>
    ELSE LET parsed == IntBase2(bit_str) IN
         IF parsed.ok THEN <<"0", "x">> \o FormatHex(parsed.value, HexWidth(bit_str))
         ELSE <<>>

\* a call to be made: the function and its argument
ToCall(fn, arg) == [fn |-> fn, arg |-> arg, result |-> None, done |-> FALSE]

\* the call made: the function returns its result
Return(result) ==
    /\ ~call.done
    /\ call' = [call EXCEPT !.result = result, !.done = TRUE]
    /\ DecoderUnchanged

\* _bits_to_hex called on a string
CallBitsToHex ==
    /\ call.fn = "_bits_to_hex"
    /\ Return(BitsToHex(call.arg))

\* ---- packets as the decoder functions see them ----

\* a call of the device library on a packet or an object raises an exception
Raises == "<raises>"

\* node.raw(): the bits, or an exception
RawBits(bits) == [raises |-> FALSE, bits |-> bits]
RawRaises == [raises |-> TRUE, bits |-> <<>>]

\* the data objects of a source capabilities message, by what value(),
\* quick_pdo() and raw() give
EmptyPdo ==
    [value |-> "Empty PDO", quick_pdo |-> "Empty", quick_rdo |-> "Not a RDO",
     raw |-> RawBits(<<"0", "0">>), position |-> Raises]
FixedPdo ==
    [value |-> "Fixed Supply", quick_pdo |-> "5V 3A", quick_rdo |-> "Not a RDO",
     raw |-> RawBits(<<"1", "0", "1">>), position |-> Raises]
BlankPdo ==
    [value |-> "Augmented", quick_pdo |-> " ", quick_rdo |-> "Not a RDO",
     raw |-> RawBits(<<"1">>), position |-> Raises]
UnreadablePdo ==
    [value |-> Raises, quick_pdo |-> Raises, quick_rdo |-> Raises, raw |-> RawRaises,
     position |-> Raises]

PdoObjects == {EmptyPdo, FixedPdo, BlankPdo, UnreadablePdo}

\* the longest object list of a packet
MaxObjects == 3

\* the lists of at most n objects out of the set objects
RECURSIVE ListsUpTo(_, _)
ListsUpTo(objects, n) ==
    IF n = 0 THEN {<<>>}
    ELSE LET shorter == ListsUpTo(objects, n - 1) IN
         shorter \cup {Append(t, o) : t \in {u \in shorter : Len(u) = n - 1}, o \in objects}

\* pkg[3].value() or pkg[4].value(): a list, something that is no list, or an
\* exception
ListValue(items) == [kind |-> "list", items |-> items]
OtherValue == [kind |-> "other", items |-> <<>>]
RaisesValue == [kind |-> "raises", items |-> <<>>]

\* str(n) of a natural number
DecChars == <<"0", "1", "2", "3", "4", "5", "6", "7", "8", "9">>

RECURSIVE Str(_)
Str(n) == IF n < 10 THEN <<DecChars[n + 1]>> ELSE Append(Str(n \div 10), DecChars[(n % 10) + 1])

\* PDParser._safe_raw
SafeRaw(node) == IF node.raw.raises THEN <<>> ELSE node.raw.bits

\* PDParser._safe_quick_call: None when the call raises
SafeQuickCall(quick) == IF quick = Raises THEN None ELSE quick

\* summary or ""
OrEmpty(summary) == IF summary = None THEN "" ELSE summary

\* getattr(obj, "value", lambda: None)() == "Empty PDO"; an exception is passed over
IsEmptyPdo(obj) == obj.value = "Empty PDO"

\* a faulty variant: the entries are numbered as they are emitted
EmittedPosition(idx, emitted) == Str(emitted + 1)

\* "index": str(idx + 1), idx counting the objects from 0 as enumerate does
EntryIndex(idx, emitted) == Str(idx + 1)

\* the loop of parse_pdo from the object at idx (counted from 0) on, with
\* emitted entries appended so far
RECURSIVE PdoEntries(_, _, _)
PdoEntries(data_objects, idx, emitted) ==
    IF idx >= Len(data_objects) THEN <<>>
    ELSE LET obj == data_objects[idx + 1] IN
         IF IsEmptyPdo(obj) THEN PdoEntries(data_objects, idx + 1, emitted)
         ELSE <<[index |-> EntryIndex(idx, emitted),
                 summary |-> OrEmpty(SafeQuickCall(obj.quick_pdo)),
                 raw |-> BitsToHex(SafeRaw(obj))]>>
              \o PdoEntries(data_objects, idx + 1, emitted + 1)

\* the object list parse_pdo reads: pkg[4] of an extended message, else pkg[3]
PdoSlot(pkg) ==
    IF pkg.extended = Raises THEN RaisesValue
    ELSE IF pkg.extended = "true" THEN pkg.slot4 ELSE pkg.slot3

\* PDParser.parse_pdo
ParsePdo(pd_payload) ==
    LET pkg == pd_payload.data IN
    IF pkg.none THEN <<>>
    ELSE IF PdoSlot(pkg).kind # "list" THEN <<>>
    ELSE PdoEntries(PdoSlot(pkg).items, 0, 0)

\* a packet: what payload.get("data") and the calls of the decoder functions
\* on the packet give
BlankPacket ==
    [none |-> FALSE, is_pdo |-> "false", is_rdo |-> "false", header |-> "present",
     msg_type |-> "GoodCRC", extended |-> "false", slot3 |-> ListValue(<<>>),
     slot4 |-> ListValue(<<>>), sop |-> "SOP", vdm |-> ListValue(<<>>)]

\* payload.get("data") is None
NonePacket == [BlankPacket EXCEPT !.none = TRUE]

\* the payload of a packet, as the decoder functions take it
DecoderPayload(pkg) == [data |-> pkg]

PdoLists == ListsUpTo(PdoObjects, MaxObjects)

\* the packets given to parse_pdo: the object list in either slot, the other
\* slot holding another list
PdoPackets ==
    {NonePacket, [BlankPacket EXCEPT !.extended = Raises]}
        \cup {[BlankPacket EXCEPT !.slot3 = v, !.slot4 = ListValue(<<FixedPdo, FixedPdo>>)] :
                 v \in {ListValue(l) : l \in PdoLists} \cup {OtherValue, RaisesValue}}
        \cup {[BlankPacket EXCEPT !.extended = "true", !.slot4 = v,
                                  !.slot3 = ListValue(<<FixedPdo, FixedPdo>>)] :
                 v \in {ListValue(l) : l \in PdoLists} \cup {OtherValue, RaisesValue}}

\* parse_pdo called on a payload
CallParsePdo ==
    /\ call.fn = "parse_pdo"
    /\ Return(ParsePdo(call.arg))

\* ---- CableDataParser ----

\* an entry of the Data Objects list: what field() gives, and the values of
\* its fields in the order the parser reads them (None where _get_value finds
\* nothing)
Node(field, values) == [field |-> field, values |-> values]

\* True and False as values of a field
BoolTrue == "<True>"
BoolFalse == "<False>"

\* what parse gives: None, the rows, or an exception that leaves it
ReturnsNone == [kind |-> "none", rows |-> <<>>]
ReturnsRows(rows) == [kind |-> "rows", rows |-> rows]
Propagates == [kind |-> "raised", rows |-> <<>>]

\* _get_value: None when the field lookup or value() raises
GetValue(value) == IF value = Raises THEN None ELSE value

\* if value: on a value of a field
Truthy(value) == value \notin {None, "", BoolFalse}

\* CableDataParser._fmt
Fmt(value) ==
    CASE value = None -> ""
      [] value = BoolTrue -> "bool_true"
      [] value = BoolFalse -> "bool_false"
      [] OTHER -> value

\* str(value).upper() of the identifiers in the packets
Upper(text) ==
    CASE text = "05ac" -> "05AC"
      [] text = "1a2b" -> "1A2B"
      [] OTHER -> text

\* _resolve_vendor_name: the name found in VENDOR_IDS, or None
ResolveVendorName(vid) == IF vid = "05ac" THEN "Apple Inc." ELSE None

\* f"{vid_display} ({vendor_name})"
WithVendorName(vid_display, vendor_name) ==
    IF vid_display = "05AC" /\ vendor_name = "Apple Inc." THEN "05AC (Apple Inc.)"
    ELSE vid_display

\* CableDataParser._find_by_field: the first item whose field() is field_name;
\* field() of an item looked at before it may raise
RECURSIVE FindByField(_, _)
FindByField(items, field_name) ==
    IF items = <<>> THEN [kind |-> "absent", node |-> Node(None, <<>>)]
    ELSE IF Head(items).field = Raises THEN [kind |-> "raises", node |-> Node(None, <<>>)]
    ELSE IF Head(items).field = field_name THEN [kind |-> "found", node |-> Head(items)]
    ELSE FindByField(Tail(items), field_name)

\* [row for row in rows if row[1]]
NonEmptyRows(rows) == SelectSeq(rows, LAMBDA row : row[2] # "")

\* (key, _fmt(_get_value(node, field))) for the fields of a node, in order
FmtRows(keys, values) == [i \in 1..Len(keys) |-> <<keys[i], Fmt(GetValue(values[i]))>>]

PassiveKeys ==
    <<"cable_connector", "cable_termination", "cable_max_voltage", "cable_current",
      "cable_highest_speed", "cable_latency", "cable_supports_epr">>

ActiveKeys ==
    <<"cable_connector", "cable_termination", "cable_max_voltage", "cable_current",
      "cable_highest_speed", "cable_supports_epr">>

SecondaryKeys == <<"cable_max_temp", "cable_shutdown_temp", "cable_usb4">>

VpdKeys ==
    <<"cable_max_voltage", "cable_charge_through", "cable_charge_through_current",
      "cable_vbus_impedance", "cable_ground_impedance">>

\* CableDataParser._extract_passive_info
ExtractPassiveInfo(node) == NonEmptyRows(FmtRows(PassiveKeys, node.values))

\* CableDataParser._extract_active_info; secondary is a find of Active Cable VDO 2
ExtractActiveInfo(primary, secondary) ==
    LET sbu_supported == GetValue(primary.values[7]) IN
    NonEmptyRows(
        FmtRows(ActiveKeys, SubSeq(primary.values, 1, 6))
            \o (IF sbu_supported # None THEN <<<<"cable_sbu", Fmt(sbu_supported)>>>> ELSE <<>>)
            \o (IF secondary.kind = "found"
                   THEN FmtRows(SecondaryKeys, secondary.node.values)
                   ELSE <<>>))

\* CableDataParser._extract_vpd_info
ExtractVpdInfo(node) == NonEmptyRows(FmtRows(VpdKeys, node.values))

\* a faulty variant: the active cable VDO is looked at first
ActiveFirst(passive_vdo, active_vdo_1, active_vdo_2, vpd_vdo) ==
    IF active_vdo_1.kind = "found"
       THEN <<<<"cable_type", "cable_type_active">>>>
                \o ExtractActiveInfo(active_vdo_1.node, active_vdo_2)
    ELSE IF passive_vdo.kind = "found"
       THEN <<<<"cable_type", "cable_type_passive">>>> \o ExtractPassiveInfo(passive_vdo.node)
    ELSE IF vpd_vdo.kind = "found"
       THEN <<<<"cable_type", "cable_type_vpd">>>> \o ExtractVpdInfo(vpd_vdo.node)
    ELSE <<>>

\* if passive_vdo is not None: ... elif active_vdo_1 is not None: ... elif vpd_vdo is not None:
CableTypeRows(passive_vdo, active_vdo_1, active_vdo_2, vpd_vdo) ==
    IF passive_vdo.kind = "found"
       THEN <<<<"cable_type", "cable_type_passive">>>> \o ExtractPassiveInfo(passive_vdo.node)
    ELSE IF active_vdo_1.kind = "found"
       THEN <<<<"cable_type", "cable_type_active">>>>
                \o ExtractActiveInfo(active_vdo_1.node, active_vdo_2)
    ELSE IF vpd_vdo.kind = "found"
       THEN <<<<"cable_type", "cable_type_vpd">>>> \o ExtractVpdInfo(vpd_vdo.node)
    ELSE <<>>

\* the rows of the ID Header VDO
IdHeaderRows(id_header, sop_value) ==
    IF id_header.kind # "found" THEN <<>>
    ELSE LET vid == GetValue(id_header.node.values[1])
             vendor_name == ResolveVendorName(vid)
             cable_role == GetValue(id_header.node.values[2])
         IN  (IF Truthy(vid)
                 THEN <<<<"cable_vendor_id",
                          IF vendor_name # None THEN WithVendorName(Upper(vid), vendor_name)
                                                ELSE Upper(vid)>>>>
                 ELSE <<>>)
             \o (IF Truthy(cable_role) THEN <<<<"cable_role", cable_role>>>> ELSE <<>>)

\* the rows of the Product VDO
ProductRows(product_vdo) ==
    IF product_vdo.kind # "found" THEN <<>>
    ELSE LET product_id == GetValue(product_vdo.node.values[1])
             bcd_device == GetValue(product_vdo.node.values[2])
         IN  (IF Truthy(product_id) THEN <<<<"cable_product_id", Upper(product_id)>>>> ELSE <<>>)
             \o (IF Truthy(bcd_device)
                    THEN <<<<"cable_device_version", Upper(bcd_device)>>>>
                    ELSE <<>>)

\* parse from info = [] on: the gates are passed
CableInfo(vdm_entries, sop_value) ==
    LET vdm_header == vdm_entries[1]
        svid == GetValue(vdm_header.values[4])
        id_header == FindByField(vdm_entries, "ID Header VDO")
        product_vdo == FindByField(vdm_entries, "Product VDO")
        passive_vdo == FindByField(vdm_entries, "Passive Cable VDO")
        active_vdo_1 == FindByField(vdm_entries, "Active Cable VDO 1")
        active_vdo_2 == FindByField(vdm_entries, "Active Cable VDO 2")
        vpd_vdo == FindByField(vdm_entries, "VPD VDO")
    IN  IF \E found \in {id_header, product_vdo, passive_vdo, active_vdo_1, active_vdo_2,
                         vpd_vdo} : found.kind = "raises"
           THEN Propagates
           ELSE ReturnsRows(
                    (IF Truthy(svid) THEN <<<<"cable_svid", svid>>>> ELSE <<>>)
                        \o <<<<"cable_source", sop_value>>,
                             <<"cable_command", "Discover Identity (ACK)">>>>
                        \o IdHeaderRows(id_header, sop_value)
                        \o ProductRows(product_vdo)
                        \o CableTypeRows(passive_vdo, active_vdo_1, active_vdo_2, vpd_vdo))

\* sop_value in ("SOP'", "SOP''")
SopOfCable(sop_value) == sop_value \in {"SOP'", "SOP''"}

\* CableDataParser.parse
CableParse(payload) ==
    LET pkg == payload.data IN
    IF pkg.none THEN ReturnsNone
    ELSE IF pkg.header = "missing" THEN ReturnsNone
    ELSE IF GetValue(pkg.msg_type) # "Vendor_Defined" THEN ReturnsNone
    ELSE IF ~SopOfCable(GetValue(pkg.sop)) THEN ReturnsNone
    ELSE IF pkg.vdm.kind = "missing" THEN ReturnsNone
    ELSE IF pkg.vdm.kind = "raises" THEN Propagates
    ELSE IF pkg.vdm.kind # "list" \/ pkg.vdm.items = <<>> THEN ReturnsNone
    ELSE LET vdm_header == pkg.vdm.items[1] IN
         IF vdm_header.field = Raises THEN Propagates
         ELSE IF vdm_header.field # "VDM Header" THEN ReturnsNone
         ELSE IF GetValue(vdm_header.values[1]) # "Structured" THEN ReturnsNone
         ELSE IF GetValue(vdm_header.values[2]) # "Discover Identity"
                    \/ GetValue(vdm_header.values[3]) # "ACK" THEN ReturnsNone
         ELSE CableInfo(pkg.vdm.items, GetValue(pkg.sop))

\* pkg["Data Objects"] is not there
MissingValue == [kind |-> "missing", items |-> <<>>]

\* the first entries of the Data Objects: VDM headers, and entries that are none
VdmHeaders ==
    {Node("VDM Header", <<vdm_type, command, command_type, svid>>) :
        vdm_type \in {"Structured", "Unstructured"},
        command \in {"Discover Identity", "Discover SVIDs"},
        command_type \in {"ACK", "REQ"},
        svid \in {"0xFF00", None}}

FirstEntries ==
    VdmHeaders \cup {Node("ID Header VDO", <<"05ac", "Passive Cable">>),
                     Node(Raises, <<"Structured", "Discover Identity", "ACK", None>>)}

\* zero or one entry out of a set
Optional(nodes) == {<<>>} \cup {<<node>> : node \in nodes}

IdHeaders ==
    {Node("ID Header VDO", <<"05ac", "Passive Cable">>),
     Node("ID Header VDO", <<"ffff", None>>),
     Node("ID Header VDO", <<None, "">>)}

ProductVdos ==
    {Node("Product VDO", <<"1a2b", "0100">>), Node("Product VDO", <<None, Raises>>)}

PassiveVdos ==
    {Node("Passive Cable VDO", <<"USB Type-C", "VCONN not required", "20V", "5A",
                                 "USB 3.2 Gen2", "<10ns (~1m)", BoolTrue>>),
     Node("Passive Cable VDO", <<None, "", "50V", Raises, None, "", BoolFalse>>),
     Node("Passive Cable VDO", <<None, None, None, None, None, None, None>>)}

ActiveVdos1 ==
    {Node("Active Cable VDO 1", <<"USB Type-C", "One end active", "20V", "3A",
                                  "USB4 Gen3", BoolFalse, BoolTrue>>),
     Node("Active Cable VDO 1", <<None, "", None, Raises, "", None, None>>)}

ActiveVdos2 == {Node("Active Cable VDO 2", <<"85C", None, BoolTrue>>)}

VpdVdos ==
    {Node("VPD VDO", <<"20V", BoolTrue, "3A", "10mOhm", "5mOhm">>),
     Node("VPD VDO", <<None, BoolFalse, "", None, Raises>>)}

\* an entry whose field() raises
UnreadableEntries == {Node(Raises, <<>>)}

\* the entries after the first one
VdmBodies ==
    {a \o b \o c \o d \o e \o f \o g :
        a \in Optional(IdHeaders), b \in Optional(ProductVdos), c \in Optional(VpdVdos),
        d \in Optional(ActiveVdos2), e \in Optional(ActiveVdos1),
        f \in Optional(PassiveVdos), g \in Optional(UnreadableEntries)}

\* what pkg["Data Objects"].value() gives
VdmValues ==
    {MissingValue, OtherValue, RaisesValue, ListValue(<<>>)}
        \cup {ListValue(<<first>> \o body) :
                 first \in FirstEntries,
                 body \in {<<>>, <<Node("Passive Cable VDO",
                                        <<None, "", "50V", Raises, None, "", BoolFalse>>)>>}}

\* the packets given to CableDataParser.parse: every way to fail a gate, and
\* every body behind a header that passes
CablePackets ==
    {NonePacket}
        \cup {[BlankPacket EXCEPT !.header = header, !.msg_type = msg_type, !.sop = sop,
                                  !.vdm = vdm] :
                 header \in {"present", "missing"},
                 msg_type \in {"Vendor_Defined", "Source_Capabilities", Raises},
                 sop \in {"SOP'", "SOP''", "SOP", Raises},
                 vdm \in VdmValues}
        \cup {[BlankPacket EXCEPT !.msg_type = "Vendor_Defined", !.sop = sop,
                                  !.vdm = ListValue(<<Node("VDM Header",
                                                          <<"Structured", "Discover Identity",
                                                            "ACK", svid>>)>> \o body)] :
                 sop \in {"SOP'", "SOP''"}, svid \in {"0xFF00", None}, body \in VdmBodies}

\* CableDataParser.parse called on a payload
CallCableParse ==
    /\ call.fn = "CableDataParser.parse"
    /\ Return(CableParse(call.arg))

\* ---- parse_rdo, the classification and the packet part of _handle_payload ----

\* the data objects of a request, by what quick_rdo() and ["Object Position"] give
FixedRdo ==
    [value |-> "Fixed RDO", quick_pdo |-> "Not a PDO", quick_rdo |-> "9V 2A",
     raw |-> RawBits(<<"1", "1", "0", "0", "1">>), position |-> "2"]
NotRdo ==
    [value |-> "Fixed Supply", quick_pdo |-> "5V 3A", quick_rdo |-> "Not a RDO",
     raw |-> RawBits(<<"1", "0", "1">>), position |-> Raises]
SilentRdo ==
    [value |-> "Fixed RDO", quick_pdo |-> "", quick_rdo |-> "",
     raw |-> RawBits(<<>>), position |-> "1"]
UnreadableRdo ==
    [value |-> Raises, quick_pdo |-> Raises, quick_rdo |-> Raises, raw |-> RawRaises,
     position |-> Raises]

RdoObjects == {FixedRdo, NotRdo, SilentRdo, UnreadableRdo}

\* if not summary or summary == "Not a RDO": summary = "Invalid RDO"
RdoSummary(summary) ==
    IF summary = None \/ summary = "" \/ summary = "Not a RDO" THEN "Invalid RDO" ELSE summary

\* PDParser.parse_rdo: the info dictionary, None for a key that is not set
ParseRdo(pd_payload) ==
    LET pkg == pd_payload.data
        invalid == [summary |-> "Invalid RDO", raw |-> <<>>, details |-> None]
    IN  IF pkg.none THEN invalid
        ELSE IF pkg.slot3.kind # "list" \/ pkg.slot3.items = <<>> THEN invalid
        ELSE LET target == pkg.slot3.items[1] IN
             [summary |-> RdoSummary(SafeQuickCall(target.quick_rdo)),
              raw |-> BitsToHex(SafeRaw(target)),
              details |-> IF target.position = Raises THEN None ELSE target.position]

\* the packets given to parse_rdo
RdoPackets ==
    {NonePacket}
        \cup {[BlankPacket EXCEPT !.slot3 = v] :
                 v \in {ListValue(l) : l \in ListsUpTo(RdoObjects, 2)}
                           \cup {OtherValue, RaisesValue}}

\* parse_rdo called on a payload
CallParseRdo ==
    /\ call.fn = "parse_rdo"
    /\ Return(ParseRdo(call.arg))

\* "sink" in normalized and "cap" in normalized, of the message types
SinkCapTypes == {"Sink_Capabilities", "EPR_Sink_Capabilities"}

\* is_sink_cap: False when the header or the message type cannot be read
IsSinkCap(pkg) == pkg.header = "present" /\ pkg.msg_type \in SinkCapTypes

\* is_pdo_packet: bool(is_pdo(pkg)) and not is_sink_cap(pkg); is_pdo is the
\* function of the device library, and an exception gives False
IsPdoPacketOf(pkg) == ~pkg.none /\ pkg.is_pdo = "true" /\ ~IsSinkCap(pkg)

\* is_rdo_packet: bool(is_rdo(pkg)), False on an exception
IsRdoPacketOf(pkg) == ~pkg.none /\ pkg.is_rdo = "true"

\* entry["summary"].strip() is empty
IsBlank(text) == text \in {"", " "}

\* " | ".join(entry["summary"] for entry in pdo_data if entry["summary"].strip()):
\* the parts that are joined, in order
JoinedSummaries(pdo_data) ==
    LET summaries == [i \in 1..Len(pdo_data) |-> pdo_data[i].summary] IN
    SelectSeq(summaries, LAMBDA text : ~IsBlank(text))

\* if pdo_data: ...; if summary.strip(): self._add_record_to_pending(...)
StoresPdo(pdo_data) == pdo_data # <<>> /\ JoinedSummaries(pdo_data) # <<>>

\* a faulty variant: every parse result is stored
StoresAnyRdo(summary) == summary # ""

\* if summary and summary != "Invalid RDO": self._add_record_to_pending(...)
StoresRdo(summary) == summary # "" /\ summary # "Invalid RDO"

\* _handle_payload of a packet payload while capture runs, from
\* pkg = payload.get("data") on: the records it adds, or the exception of
\* CableDataParser.parse
HandleDecoded(payload) ==
    LET pkg == payload.data
        pdo_data == ParsePdo(payload)
        rdo_info == ParseRdo(payload)
    IN  IF pkg.none THEN [raised |-> FALSE, records |-> <<>>]
        ELSE IF CableParse(payload).kind = "raised" THEN [raised |-> TRUE, records |-> <<>>]
        ELSE [raised |-> FALSE,
              records |->
                  (IF IsPdoPacketOf(pkg) /\ StoresPdo(pdo_data)
                      THEN <<[type |-> "PDO", summary |-> JoinedSummaries(pdo_data)]>>
                      ELSE <<>>)
                  \o (IF IsRdoPacketOf(pkg) /\ StoresRdo(rdo_info.summary)
                         THEN <<[type |-> "RDO", summary |-> <<rdo_info.summary>>]>>
                         ELSE <<>>)]

\* while True: payload = self.data_queue.get_nowait(); self._handle_payload(payload),
\* left at queue.Empty or at any other exception
RECURSIVE DrainDecoded(_, _)
DrainDecoded(q, paused) ==
    IF q = <<>> THEN [aborted |-> FALSE, rest |-> <<>>, records |-> <<>>]
    ELSE LET handled == HandleDecoded(Head(q)) IN
         IF paused THEN DrainDecoded(Tail(q), paused)
         ELSE IF handled.raised THEN [aborted |-> TRUE, rest |-> Tail(q), records |-> <<>>]
         ELSE LET after == DrainDecoded(Tail(q), paused) IN
              [after EXCEPT !.records = handled.records \o @]

\* _add_record_to_pending for each record, in order
RECURSIVE Numbered(_, _)
Numbered(records, index) ==
    IF records = <<>> THEN <<>>
    ELSE <<[index |-> index + 1, type |-> Head(records).type,
            summary |-> Head(records).summary]>>
         \o Numbered(Tail(records), index + 1)

\* the packets the consumer is given: capabilities of a source and of a sink,
\* requests, a packet the library takes for both, a cable identity, and
\* packets whose calls fail
SourceCaps(objects) ==
    [BlankPacket EXCEPT !.is_pdo = "true", !.msg_type = "Source_Capabilities",
                        !.slot3 = ListValue(objects)]
SinkCaps(objects) ==
    [BlankPacket EXCEPT !.is_pdo = "true", !.msg_type = "Sink_Capabilities",
                        !.slot3 = ListValue(objects)]
Request(objects) ==
    [BlankPacket EXCEPT !.is_rdo = "true", !.msg_type = "Request", !.slot3 = ListValue(objects)]
CableIdentity(vdm) ==
    [BlankPacket EXCEPT !.msg_type = "Vendor_Defined", !.sop = "SOP'", !.vdm = vdm]

IdentityHeader == Node("VDM Header", <<"Structured", "Discover Identity", "ACK", "0xFF00">>)

HandledPackets ==
    {NonePacket,
     SourceCaps(<<FixedPdo, EmptyPdo, FixedPdo>>),
     SourceCaps(<<BlankPdo, UnreadablePdo>>),
     SinkCaps(<<FixedPdo>>),
     Request(<<FixedRdo>>),
     Request(<<NotRdo>>),
     [Request(<<FixedRdo>>) EXCEPT !.slot3 = RaisesValue],
     [SourceCaps(<<FixedRdo>>) EXCEPT !.is_rdo = "true"],
     [SourceCaps(<<FixedPdo>>) EXCEPT !.is_pdo = Raises, !.is_rdo = Raises],
     [SourceCaps(<<FixedPdo>>) EXCEPT !.header = "missing", !.msg_type = Raises,
                                       !.extended = Raises],
     CableIdentity(ListValue(<<IdentityHeader>>)),
     CableIdentity(RaisesValue),
     CableIdentity(ListValue(<<IdentityHeader, Node(Raises, <<>>)>>))}

\* the queues _poll_queue finds
DecodedQueues == ListsUpTo({DecoderPayload(pkg) : pkg \in HandledPackets}, QueueMax)

\* _poll_queue over a queue of packet payloads
PollDecoded ==
    /\ cpc = "idle"
    /\ device_open
    /\ call.fn = "_poll_queue"
    /\ ~call.done
    /\ LET r == DrainDecoded(call.arg, is_paused) IN
          /\ pending_records' = pending_records \o Numbered(r.records, log_index)
          /\ log_index' = log_index + Len(r.records)
          /\ data_queue' = r.rest
          /\ call' = [call EXCEPT !.result = r.aborted, !.done = TRUE]
    /\ UNCHANGED <<cpc, device_open, is_paused, start_time, log_records, measurement_records,
                   measurement_index, raw_log_records, raw_measurement_records,
                   pending_measurements, table>>
    /\ UNCHANGED <<workerVars, stop_event, pause_flag, clock, settingsVars, autoPauseVars,
                   orderVars, fileVars>>

\* the device is connected and capture is started before the queue is polled
ConnectToPoll == call.fn = "_poll_queue" /\ ~call.done /\ ConnectDevice
ToggleToPoll == call.fn = "_poll_queue" /\ ~call.done /\ ToggleCollection

\* the window, and one call of a function of the decoder or of _poll_queue
InitDecoder ==
    /\ InitWindow
    /\ call \in
          {ToCall("_bits_to_hex", b) : b \in StringsUpTo(MaxBits)}
              \cup {ToCall("parse_pdo", DecoderPayload(pkg)) : pkg \in PdoPackets}
              \cup {ToCall("CableDataParser.parse", DecoderPayload(pkg)) :
                        pkg \in CablePackets}
              \cup {ToCall("parse_rdo", DecoderPayload(pkg)) : pkg \in RdoPackets}
              \cup {ToCall("_poll_queue", q) : q \in DecodedQueues}

NextDecoder ==
    \/ CallBitsToHex
    \/ CallParsePdo
    \/ CallCableParse
    \/ CallParseRdo
    \/ ConnectToPoll
    \/ ToggleToPoll
    \/ PollDecoded

SpecDecoder == InitDecoder /\ [][NextDecoder]_vars

\* ---- _export_csv and _import_csv of the exported file ----

\* the fields of a CSV row: a text, the text of an integer, and the text of a
\* number with three decimals (n in thousandths)
Text(text) == [kind |-> "text", text |-> text, n |-> 0]
IntText(n) == [kind |-> "int", text |-> "", n |-> n]
Fixed3(n) == [kind |-> "fixed3", text |-> "", n |-> n]

\* relative times are counted in tenths of a millisecond
\* f"{relative_time:.3f}"
Format3(t) == Fixed3((t + 5) \div 10)

\* f"{voltage:.3f}" of a value in tenths
FormatTenths(v) == Fixed3(v * 100)

\* int(text): the value, or ValueError
IntOf(field) == [ok |-> field.kind = "int", value |-> field.n]

\* float(text), in thousandths: the value, or ValueError
FloatOf(field) == [ok |-> field.kind \in {"int", "fixed3"},
                   value |-> IF field.kind = "int" THEN field.n * 1000 ELSE field.n]

\* if row[k]: the field is not empty
NotEmpty(field) == field.kind # "text" \/ field.text # ""

\* the header row _export_csv writes: nine columns
HeaderRow ==
    <<Text("Index"), Text("Absolute Time"), Text("Relative Time"), Text("Type"),
      Text("Summary"), Text("Details"), Text("Voltage(V)"), Text("Current(A)"),
      Text("Power(W)")>>

\* header_variants: rows of six columns
HeaderVariant == SubSeq(HeaderRow, 1, 6)

\* the row of a PD record
PdRow(record) ==
    <<IntText(record.index), Text(record.timestamp), Format3(record.relative_time),
      Text(record.type), Text(record.summary), Text("")>>

\* a measurement record has a value that is None: its format raises TypeError
Unformattable(record) ==
    record.voltage = Absent \/ record.current = Absent \/ record.power = Absent

\* the row of a measurement record
MeasurementRow(record) ==
    <<IntText(record.index), Text(record.timestamp), Format3(record.relative_time),
      Text(record.type), Text("V I P"), Text(""), FormatTenths(record.voltage),
      FormatTenths(record.current), FormatTenths(record.power)>>

\* for record in self.raw_measurement_records: writer.writerow(...), up to a
\* record whose format raises
RECURSIVE MeasurementRows(_)
MeasurementRows(records) ==
    IF records = <<>> THEN [rows |-> <<>>, failed |-> FALSE]
    ELSE IF Unformattable(Head(records)) THEN [rows |-> <<>>, failed |-> TRUE]
    ELSE LET after == MeasurementRows(Tail(records)) IN
         [after EXCEPT !.rows = <<MeasurementRow(Head(records))>> \o @]

\* the rows _export_csv has written when it ends, and whether it failed
ExportedRows(pd_records, measurements) ==
    LET written == MeasurementRows(measurements) IN
    [rows |-> <<HeaderRow>> \o [i \in 1..Len(pd_records) |-> PdRow(pd_records[i])]
                  \o written.rows,
     failed |-> written.failed]

\* _export_csv
ExportCsv ==
    /\ cpc = "idle"
    /\ call.fn = "_export_csv"
    /\ ~call.done
    /\ raw_log_records # <<>> \/ raw_measurement_records # <<>>
    /\ LET exported == ExportedRows(raw_log_records, raw_measurement_records) IN
          /\ csv_file' = exported.rows
          /\ call' = [call EXCEPT !.result = exported.failed, !.done = TRUE]
    /\ UNCHANGED <<workerVars, data_queue, stop_event, pause_flag, clock, consumerVars,
                   settingsVars, autoPauseVars, orderVars>>

\* what the loop of _import_csv has built
NoRecords == [raw_log |-> <<>>, raw_measurements |-> <<>>, log_index |-> 0,
              measurement_index |-> 0]

\* the loop of _import_csv over the rows of the file
RECURSIVE ImportRows(_, _)
ImportRows(rows, got) ==
    IF rows = <<>> THEN got
    ELSE LET row == Head(rows) IN
         IF Len(row) < 5 \/ ~IntOf(row[1]).ok \/ ~FloatOf(row[3]).ok
            THEN ImportRows(Tail(rows), got)
         ELSE LET index == IntOf(row[1]).value
                  relative_time == FloatOf(row[3]).value * 10
              IN  IF /\ Len(row) > 8
                     /\ NotEmpty(row[7]) /\ NotEmpty(row[8]) /\ NotEmpty(row[9])
                     /\ FloatOf(row[7]).ok /\ FloatOf(row[8]).ok /\ FloatOf(row[9]).ok
                     THEN ImportRows(Tail(rows),
                              [got EXCEPT
                                  !.raw_measurements =
                                      Append(@, [index |-> index, timestamp |-> row[2].text,
                                                 relative_time |-> relative_time,
                                                 type |-> "MEASUREMENT",
                                                 voltage |-> FloatOf(row[7]).value \div 100,
                                                 current |-> AbsCurrent(FloatOf(row[8]).value
                                                                            \div 100),
                                                 power |-> FloatOf(row[9]).value \div 100]),
                                  !.measurement_index = Max(@, index)])
                     ELSE ImportRows(Tail(rows),
                              [got EXCEPT
                                  !.raw_log =
                                      Append(@, [index |-> index, timestamp |-> row[2].text,
                                                 relative_time |-> relative_time,
                                                 type |-> row[4].text,
                                                 summary |-> row[5].text]),
                                  !.log_index = Max(@, index)])

\* if rows and tuple(rows[0]) in header_variants: rows = rows[1:]
WithoutHeader(rows) ==
    IF rows # <<>> /\ Head(rows) = HeaderVariant THEN Tail(rows) ELSE rows

\* the first limit records: what _import_csv makes visible
FirstOf(records, limit) == SubSeq(records, 1, IF Len(records) < limit THEN Len(records) ELSE limit)

\* _import_csv of the file _export_csv wrote
ImportExported ==
    /\ cpc = "idle"
    /\ call.fn = "_export_csv"
    /\ call.done
    /\ LET got == ImportRows(WithoutHeader(csv_file), NoRecords) IN
          /\ raw_log_records' = got.raw_log
          /\ raw_measurement_records' = got.raw_measurements
          /\ log_records' = FirstOf(got.raw_log, ui_log_limit)
          /\ table' = IndexColumn(FirstOf(got.raw_log, ui_log_limit))
          /\ measurement_records' = FirstOf(got.raw_measurements, ui_measurement_limit)
          /\ log_index' = got.log_index
          /\ measurement_index' = got.measurement_index
    /\ pending_records' = <<>>
    /\ pending_measurements' = <<>>
    /\ start_time' = NoTime
    /\ call' = [call EXCEPT !.fn = "_import_csv"]
    /\ UNCHANGED <<cpc, device_open, is_paused>>
    /\ UNCHANGED <<workerVars, data_queue, stop_event, pause_flag, clock, settingsVars,
                   autoPauseVars, orderVars, fileVars>>

\* the most records of a kind in a capture that is exported
MaxExported == 2

\* relative times of records, in tenths of a millisecond: 0 s, 1.2344 s, 1.2346 s
RelativeTimes == {0, 12344, 12346}

\* the PD records of a capture, numbered by _add_record_to_pending
PdRecordsOf(n) ==
    {[i \in 1..n |-> [index |-> i, timestamp |-> "12:00:00.000",
                      relative_time |-> times[i], type |-> types[i],
                      summary |-> IF types[i] = "PDO" THEN "5V 3A | 9V, 2A" ELSE "9V 2A"]] :
        times \in [1..n -> RelativeTimes], types \in [1..n -> {"PDO", "RDO"}]}

\* the measurement records of a capture: of a sample with VBus and Current, and
\* of a sample without VBus, whose voltage and power are None
MeasurementRecordsOf(n) ==
    {[i \in 1..n |-> [index |-> i, timestamp |-> "12:00:00.100",
                      relative_time |-> times[i], type |-> "MEASUREMENT",
                      voltage |-> SampleVolts[samples[i]],
                      current |-> AbsCurrent(SampleAmps[samples[i]]),
                      power |-> IF SampleVolts[samples[i]] = Absent THEN Absent
                                ELSE (SampleVolts[samples[i]]
                                          * AbsCurrent(SampleAmps[samples[i]])) \div 10]] :
        times \in [1..n -> RelativeTimes], samples \in [1..n -> {"vi", "nov"}]}

\* the records a capture has left when the export is asked for: up to n of a kind
Captures(n) ==
    {[pd |-> pd, measurements |-> m] :
        pd \in UNION {PdRecordsOf(k) : k \in 0..n},
        m \in UNION {MeasurementRecordsOf(k) : k \in 0..n}}

\* the window after a capture, with the device disconnected again
InitCaptured ==
    /\ InitNoDevice
    /\ call \in {ToCall("_export_csv", capture) : capture \in Captures(MaxExported)}
    /\ start_time = 0
    /\ raw_log_records = call.arg.pd
    /\ raw_measurement_records = call.arg.measurements
    /\ log_records = call.arg.pd
    /\ table = IndexColumn(call.arg.pd)
    /\ measurement_records = call.arg.measurements
    /\ log_index = Len(call.arg.pd)
    /\ measurement_index = Len(call.arg.measurements)

NextCsv ==
    \/ ExportCsv
    \/ ImportExported

SpecCsv == InitCaptured /\ [][NextCsv]_vars

\* ---- a session with the auto-pause settings dialog, the values typed ----

\* float(text) raises ValueError
NotNumber == 0 - 998

\* the limits of the dialog: 20 V and 5 A in tenths, 10 s in ticks
VoltageLimit == 200
CurrentLimit == 50
DelayLimit == 100

\* value < 0 or value > limit
OutOfRange(value, limit) == value # NaN /\ (value < 0 \/ value > limit)

\* what _show_auto_pause_settings answers to the values typed: the warning it
\* shows, or "accepted"
DialogVerdict(entry) ==
    IF NotNumber \in {entry.voltage, entry.current, entry.delay} THEN "invalid number"
    ELSE IF OutOfRange(entry.voltage, VoltageLimit) THEN "voltage range"
    ELSE IF OutOfRange(entry.current, CurrentLimit) THEN "current range"
    ELSE IF OutOfRange(entry.delay, DelayLimit) THEN "delay range"
    ELSE "accepted"

DialogEntry(enabled, metric, voltage, current, delay) ==
    [enabled |-> enabled, metric |-> metric, voltage |-> voltage, current |-> current,
     delay |-> delay]

\* what the operator types: values within the limits and at them, one value
\* just outside, one that is no number, and nan
DialogEntries ==
    {DialogEntry(TRUE, "current", 50, 20, 2),
     DialogEntry(TRUE, "voltage", 0, 0, 0),
     DialogEntry(FALSE, "voltage", VoltageLimit, CurrentLimit, DelayLimit)}
        \cup {DialogEntry(TRUE, "voltage", v, 20, 2) :
                 v \in {VoltageLimit + 1, 0 - 10, NotNumber, NaN}}
        \cup {DialogEntry(TRUE, "current", 50, c, 2) :
                 c \in {CurrentLimit + 1, 0 - 10, NotNumber, NaN}}
        \cup {DialogEntry(FALSE, "current", 50, 20, d) :
                 d \in {DelayLimit + 1, 0 - 10, NotNumber, NaN}}

\* _show_auto_pause_settings, the dialog accepted with the values of entry
ShowAutoPauseSettingsTyped ==
    /\ cpc = "idle"
    /\ \E entry \in DialogEntries :
          /\ IF DialogVerdict(entry) = "accepted"
                THEN StoreSettings(entry.enabled, entry.metric, entry.voltage,
                                   entry.current, entry.delay)
                ELSE UNCHANGED <<settingsVars, timer_active, timer_expiry, pending_metric,
                                 pending_threshold>>
          /\ call' = [fn |-> "_show_auto_pause_settings", arg |-> entry,
                      result |-> DialogVerdict(entry), done |-> TRUE]
    /\ UNCHANGED <<last_voltage, last_current, triggered, orderVars, fileVars>>
    /\ UNCHANGED <<workerVars, data_queue, stop_event, pause_flag, clock, consumerVars>>

NextDialog ==
    \/ WorkerDelivers
    \/ WorkerFails
    \/ PollQueue
    \/ ShowAutoPauseSettingsTyped
    \/ ConnectDevice
    \/ DisconnectDevice
    \/ JoinReturn
    \/ ToggleCollection

SpecDialog == Init /\ [][NextDialog]_vars

\* ---- a capture with its times: the worker stamps, the consumer subtracts ----

\* the samples of a capture: VBus and Current, and Current alone
CaptureSamples == {"vi", "nov"}

\* payload = {"timestamp": timestamp_str, "time_sec": time.time(), "data": pkg}
StampedPayload(pkg, now) ==
    [data |-> pkg, measurements |-> None, error |-> None, time_sec |-> now]

\* k2.read_data(); k2.auto_unpack() of a packet, and the payload with its
\* time, made before the packet type and the pause flag are looked at
W_ReadStamped ==
    /\ wpc = "read"
    /\ CanDeliver
    /\ \E pkg \in {"pdo", "rdo", "general"} :
       \E m \in IF pkg = "general" THEN CaptureSamples ELSE {None} :
          /\ wpc' = AfterRead(pkg, m)
          /\ w_payload' = StampedPayload(pkg, clock)
          /\ w_measurements' = m
    /\ w_pause_read' = NotRead
    /\ UNCHANGED <<w_raised, w_cause, handle, last_measurement_timestamp, sent_times,
                   data_queue>>
    /\ SharedUnchanged

\* the worker of a device that delivers packets, its payloads stamped
WorkerStamped ==
    /\ \/ W_Open
       \/ W_LoopHead
       \/ W_ReadStamped
       \/ W_Gate
       \/ W_Put
       \/ W_ConnPut
       \/ W_Close
    /\ UNCHANGED consumerVars

\* a faulty variant: the record is timed when it is handled
TimeWhenHandled(payload, now) == now

\* time_sec = payload.get("time_sec", time.time())
TimeSec(payload, now) ==
    IF "time_sec" \in DOMAIN payload THEN payload.time_sec ELSE now

\* relative_time = 0.0; if self.start_time is not None: relative_time = ... - self.start_time
RelativeTime(start, time_sec) == IF start = NoTime THEN 0 ELSE time_sec - start

\* _add_record_to_pending, the record with its relative time
AddStampedRecord(cs, payload, record_type) ==
    [cs EXCEPT !.log_index = @ + 1,
               !.pending_records =
                   Append(@, [index |-> cs.log_index + 1,
                              relative_time |-> RelativeTime(cs.start_time,
                                                             TimeSec(payload, clock)),
                              type |-> record_type])]

\* measurements['power'] = abs(voltage * current), if the sample has both
SamplePower(m) ==
    IF SampleVolts[m] = Absent \/ SampleAmps[m] = Absent THEN Absent
    ELSE (SampleVolts[m] * AbsCurrent(SampleAmps[m])) \div 10

\* a faulty variant: a sample without a voltage or a current is not recorded
RecordedIfFull(m) == SampleVolts[m] # Absent /\ SampleAmps[m] # Absent

\* the measurement record is made of any sample that came
Recorded(m) == TRUE

\* the measurement part of _handle_payload, the record with its fields
HandleStampedMeasurements(cs, payload) ==
    IF payload.measurements = None THEN cs
    ELSE LET voltage == SampleVolts[payload.measurements]
             current == AbsCurrent(SampleAmps[payload.measurements])
             power == SamplePower(payload.measurements)
             c0 == [cs EXCEPT !.last_voltage = voltage, !.last_current = current]
             c1 == IF ~c0.is_paused
                      THEN CheckAndApplyAutoPause(c0, voltage, current)
                      ELSE c0
         IN  IF ~c1.is_paused /\ Recorded(payload.measurements)
                THEN [c1 EXCEPT !.measurement_index = @ + 1,
                                !.pending_measurements =
                                    Append(@, [index |-> c1.measurement_index + 1,
                                               relative_time |->
                                                   RelativeTime(c1.start_time, clock),
                                               type |-> "MEASUREMENT",
                                               voltage |-> voltage,
                                               current |-> current,
                                               power |-> power])]
                ELSE c1

\* the packet part of _handle_payload, the records with their relative times
HandleStampedPacket(cs, payload) ==
    IF cs.is_paused \/ payload.data = None
       THEN cs
       ELSE LET c1 == IF IsPdoPacket(payload.data)
                         THEN AddStampedRecord(cs, payload, "PDO") ELSE cs
            IN  IF IsRdoPacket(payload.data) THEN AddStampedRecord(c1, payload, "RDO") ELSE c1

\* the loop of _poll_queue, the records with their times and fields
RECURSIVE DrainStamped(_, _)
DrainStamped(cs, q) ==
    IF q = <<>> THEN [cs |-> cs, rest |-> <<>>, error |-> FALSE]
    ELSE IF Head(q).error # None THEN [cs |-> cs, rest |-> Tail(q), error |-> TRUE]
    ELSE DrainStamped(HandleStampedPacket(HandleStampedMeasurements(cs, Head(q)), Head(q)),
                      Tail(q))

\* _poll_queue, the records with their times and fields
PollQueueStamped == PollQueueOf(DrainStamped(CState, data_queue))

NextCapture ==
    \/ WorkerStamped
    \/ Tick
    \/ PollQueueStamped
    \/ BatchUpdateUi
    \/ JoinReturn
    \/ ToggleCollection

SpecCapture == InitConnected /\ [][NextCapture]_vars

----------------------------------------------------------------------------
\* Properties

Last(q) == q[Len(q)]

IsPrefix(a, b) == Len(a) <= Len(b) /\ SubSeq(b, 1, Len(a)) = a

IsSuffix(a, b) == Len(a) <= Len(b) /\ SubSeq(b, Len(b) - Len(a) + 1, Len(b)) = a

\* a step of the worker process that leaves position pc
WorkerLeaves(pc) == wpc = pc /\ wpc' \notin {pc, "killed"}

\* C1: the visible PD buffer never holds more than ui_log_limit records and the
\* visible measurement buffer never more than ui_measurement_limit, whatever
\* the size of the batch one batch tick applies.
C1_VisibleWithinLimits ==
    /\ Len(log_records) <= ui_log_limit
    /\ Len(measurement_records) <= ui_measurement_limit

\* C2: for each kind the visible buffer is a suffix of the raw buffer (the most
\* recent raw records, in order), also after an import of more rows than the cap.
C2_VisibleIsSuffixOfRaw ==
    /\ IsSuffix(log_records, raw_log_records)
    /\ IsSuffix(measurement_records, raw_measurement_records)

C3_RawCoversVisible ==
    /\ Len(raw_log_records) >= Len(log_records)
    /\ Len(raw_measurement_records) >= Len(measurement_records)

C3_ResetStep == ManualClear \/ (ConnectDevice /\ log_records # <<>>) \/ ImportCsv

C3_RawKept ==
    /\ IsPrefix(raw_log_records, raw_log_records')
    /\ IsPrefix(raw_measurement_records, raw_measurement_records')

\* C3: the raw buffer of each kind is never shorter than the visible buffer, and
\* every step that is not a reset of the record store (manual clear,
\* clear-on-connect, import) keeps every raw record.
C3_RawOnlyGrows == []C3_RawCoversVisible /\ [][C3_RawKept \/ C3_ResetStep]_vars

\* raw records of a capture outlive the eviction from the visible buffer and the disconnect
C3_Witness ==
    /\ start_time # NoTime
    /\ ~device_open
    /\ Len(log_records) >= ui_log_limit
    /\ Len(raw_log_records) > Len(log_records)

C4_DropStep ==
    (WorkerLeaves("put") /\ Full) =>
        /\ data_queue' = data_queue
        /\ wpc' = "loop"
        /\ w_raised' = FALSE
        /\ w_cause' = None

\* C4: the queue never holds more than its capacity; a put on a full queue
\* leaves the queue as it is, and the worker goes on to its next iteration
\* without an exception and without an error payload.
C4_FullQueueDropsNewest == [](Len(data_queue) <= QueueMax) /\ [][C4_DropStep]_vars

\* a measurement passed the gate (its timestamp was taken) and was not enqueued:
\* the queue was full
C4_Witness ==
    /\ wpc = "loop"
    /\ Full
    /\ last_measurement_timestamp > 0
    /\ (sent_times = <<>> \/ Last(sent_times) # last_measurement_timestamp)
    /\ ~w_raised

\* C5: whenever a read fails with a read error, the worker puts a
\* device_disconnected payload on the queue and then leaves the loop, in every
\* state of the queue.
C5_ReadErrorIsReported ==
    [][WorkerLeaves("err_put") =>
          /\ data_queue' = Append(data_queue, ErrorPayload("device_disconnected"))
          /\ wpc' = "close"]_vars

\* C6: a worker that ended because the device could not be opened or because
\* a read failed leads to the disconnect teardown: device_open false and
\* capture paused, as long as the poll tick keeps running.
C6_DeadWorkerIsTornDown ==
    (wpc = "ended" /\ w_cause \in {"open failed", "read error"} /\ device_open)
        ~> (~device_open /\ is_paused)

\* C7: whenever the worker function has returned or raised, k2.close() has
\* been called; only a terminated process skips it.
C7_HandleClosedAtExit == wpc = "ended" => handle = "closed"

\* the worker ended by the exception raised while it enqueued an error payload
C7_Witness == wpc = "ended" /\ w_raised /\ handle = "closed"

C8_NoNewCycle == (stop_event /\ wpc # "read") => wpc' # "read"

\* the steps the worker has left at most once the stop event is set
C8_StepsLeft ==
    [open |-> 6, read |-> 6, sleep |-> 5, gate |-> 5, put |-> 4, loop |-> 3,
     err_put |-> 3, conn_put |-> 2, close |-> 1, ended |-> 0]

C8_Countdown ==
    (stop_event /\ stop_event' /\ wpc' \notin {wpc, "killed"}) =>
        C8_StepsLeft[wpc'] < C8_StepsLeft[wpc]

\* a worker that has not ended can take its next step: nothing but the
\* blocking read makes it wait
C8_NotBlocked == wpc \in (DOMAIN C8_StepsLeft \ {"ended"}) => ENABLED Worker

\* C8: once the stop event is set the worker enters no further read, whatever
\* path ("continue", the retry after a transient error) brings it back to the
\* loop head, and it ends after a bounded number of its own steps: every step
\* it takes brings it closer to its end, and it can always take one.
C8_StopEndsWorker == []C8_NotBlocked /\ [][C8_NoNewCycle /\ C8_Countdown]_vars

\* the worker saw the stop event and returned
C8_Witness == stop_event /\ wpc = "ended" /\ w_cause = None /\ handle = "closed"

C9_PausedIteration ==
    (WorkerLeaves("gate") /\ pause_flag = 1) => (wpc' = "loop" /\ data_queue' = data_queue)

C9_Enqueued == Len(data_queue') > Len(data_queue) /\ Last(data_queue').error = None

\* C9 as stated: an iteration that reads the flag as 1 enqueues nothing, and
\* while the flag stays 1 the queue receives nothing but error payloads.
C9_NothingEnqueuedWhilePaused ==
    [][/\ C9_PausedIteration
       /\ (pause_flag = 1 /\ pause_flag' = 1) => ~C9_Enqueued]_vars

\* C9 as amended: an iteration that reads the flag as 1 enqueues nothing, and
\* every payload other than an error was enqueued by an iteration that had
\* read the flag as 0.
C9_PausedIterationEnqueuesNothing ==
    [][/\ C9_PausedIteration
       /\ C9_Enqueued => w_pause_read = 0]_vars

\* a PD packet read while paused was dropped
C9_Witness ==
    /\ wpc = "loop"
    /\ w_pause_read = 1
    /\ IsPdPacket(w_payload.data)
    /\ data_queue = <<>>

\* 5 Hz: the samples of one second
SamplesPerSecond == 5

\* the measurement payloads enqueued with a worker clock in [t, t + w)
SentIn(t, w) == {i \in 1..Len(sent_times) : t <= sent_times[i] /\ sent_times[i] < t + w}

C10_Spaced ==
    /\ \A i \in 1..(Len(sent_times) - 1) : sent_times[i + 1] - sent_times[i] >= RateTicks
    /\ \A k \in 1..SamplesPerSecond : \A t \in 0..MaxClock :
          Cardinality(SentIn(t, k * RateTicks)) <= k

C10_PdStep ==
    (WorkerLeaves("gate") /\ IsPdPacket(w_payload.data) /\ pause_flag = 0) => wpc' = "put"

\* C10: consecutive measurement payloads of a worker are at least 0.2 s apart
\* on its clock, so a window of k intervals holds at most k of them (5 in one
\* second); a PD packet read while running is enqueued whatever the clock.
C10_MeasurementRate == []C10_Spaced /\ [][C10_PdStep]_vars

\* two measurement payloads exactly one interval apart
C10_Witness ==
    /\ Len(sent_times) >= 2
    /\ sent_times[2] - sent_times[1] = RateTicks

\* C11: the worker's last-sent timestamp is the clock of the last measurement
\* payload it placed on the queue (0.0 before the first): an iteration that
\* enqueues no measurement payload, because the worker is paused, the interval
\* has not elapsed, the packet is a PD packet or the queue is full, leaves it
\* unchanged.  Stated at the end of every iteration.
C11_TimestampOnlyOnEmission ==
    wpc \in {"loop", "read", "sleep", "gate", "err_put", "conn_put", "close", "ended"} =>
        last_measurement_timestamp = (IF sent_times = <<>> THEN 0 ELSE Last(sent_times))

\* ---- auto-pause ----

\* the payloads _poll_queue handles: those in front of the first error payload
RECURSIVE Handled(_)
Handled(q) ==
    IF q = <<>> \/ Head(q).error # None THEN <<>> ELSE <<Head(q)>> \o Handled(Tail(q))

\* the samples among the payloads _poll_queue handles
Measured(q) == SelectSeq(Handled(q), LAMBDA payload : payload.measurements # None)

Magnitude(x) == IF x < 0 THEN 0 - x ELSE x

\* the value of a metric in a sample, as the window reads it
ValueOf(metric, m) ==
    IF metric = "voltage" THEN SampleVolts[m]
    ELSE IF SampleAmps[m] = Absent THEN Absent ELSE Magnitude(SampleAmps[m])

ConfiguredThreshold ==
    IF auto_pause_metric = "voltage" THEN voltage_threshold ELSE current_threshold

\* the configured metric of a sample is present and strictly below the threshold
IsBelow(m) == ValueOf(auto_pause_metric, m) # Absent
                 /\ ValueOf(auto_pause_metric, m) < ConfiguredThreshold

\* the configured metric of a sample is present and at or above the threshold
IsAtOrAbove(m) == ValueOf(auto_pause_metric, m) # Absent
                     /\ ValueOf(auto_pause_metric, m) >= ConfiguredThreshold

\* the positions of the samples below the threshold among those handled
BelowAt(q) == {i \in 1..Len(Measured(q)) : IsBelow(Measured(q)[i].measurements)}

\* the least element of a non-empty set of numbers
Least(S) == CHOOSE i \in S : \A j \in S : i <= j

\* _poll_queue runs with auto-pause enabled, no delay, and capture running
C12_ImmediateStep ==
    /\ auto_pause_threshold_enabled
    /\ auto_pause_delay_seconds = 0
    /\ ~is_paused
    /\ PollQueue

\* C12: with auto-pause enabled and no delay, while capture is running, the
\* first handled sample whose configured metric is strictly below the
\* threshold pauses capture in that same handling step (is_paused, pause flag
\* 1; the samples in front of it are recorded, it and the later ones are not),
\* and samples at or above the threshold do not pause. For 5.0 V and the
\* samples 5.2 V, 4.8 V the first is recorded and the second pauses.
C12_BelowThresholdPausesAtOnce ==
    [][C12_ImmediateStep =>
          /\ is_paused' <=> BelowAt(data_queue) # {}
          /\ is_paused' => pause_flag' = 1 /\ triggered' = "sample" /\ ~timer_active'
          /\ ~is_paused' => pause_flag' = pause_flag /\ triggered' = triggered
          /\ measurement_index' = measurement_index +
                (IF BelowAt(data_queue) = {} THEN Len(Measured(data_queue))
                 ELSE Least(BelowAt(data_queue)) - 1)
          /\ (/\ auto_pause_metric = "voltage" /\ voltage_threshold = 50
              /\ Len(data_queue) = 2
              /\ data_queue[1].measurements = "vi" /\ data_queue[2].measurements = "low")
                => is_paused' /\ measurement_index' = measurement_index + 1]_vars

\* the 4.8 V sample has paused a running capture against 5.0 V, after one
\* sample was recorded
C12_Witness ==
    /\ triggered = "sample" /\ is_paused /\ pause_flag = 1 /\ device_open
    /\ auto_pause_threshold_enabled /\ auto_pause_delay_seconds = 0
    /\ auto_pause_metric = "voltage" /\ voltage_threshold = 50
    /\ last_voltage = 48
    /\ measurement_index = 1

\* the last sample among the payloads _poll_queue handles
LastSample(q) == Measured(q)[Len(Measured(q))].measurements

\* no timer is pending and nothing is remembered
TimerIdle ==
    /\ ~timer_active
    /\ timer_expiry = NoTime
    /\ pending_metric = None
    /\ pending_threshold = Absent

\* _poll_queue runs with auto-pause enabled, a delay, and capture running
C13_DelayedStep ==
    /\ auto_pause_threshold_enabled
    /\ auto_pause_delay_seconds > 0
    /\ ~is_paused
    /\ PollQueue

\* C13: with auto-pause enabled and a delay d > 0, handling samples never
\* pauses capture: the pause happens only when a pending delay timer expires,
\* d after a below-threshold sample started it.  A timer is started only by a
\* handled sample below the threshold, and after a handling step a timer is
\* pending exactly when the last handled sample was below the threshold: a
\* sample at or above the threshold cancels the pending timer, and a later
\* breach has to wait a full delay again.
C13_PauseOnlyAtTimerExpiry ==
    [][/\ C13_DelayedStep =>
             /\ is_paused' = is_paused /\ pause_flag' = pause_flag /\ triggered' = triggered
             /\ Measured(data_queue) # <<>> =>
                   /\ timer_active' <=> IsBelow(LastSample(data_queue))
                   /\ IsAtOrAbove(LastSample(data_queue)) => TimerIdle'
             /\ (\E i \in 1..Len(Measured(data_queue)) :
                      ~IsBelow(Measured(data_queue)[i].measurements)) /\ timer_active' =>
                   timer_expiry' = clock + auto_pause_delay_seconds
       /\ ~timer_active /\ timer_active' =>
             /\ C13_DelayedStep
             /\ IsBelow(LastSample(data_queue))
             /\ timer_expiry' = clock + auto_pause_delay_seconds
             /\ pending_metric' = auto_pause_metric
             /\ pending_threshold' = ConfiguredThreshold
       /\ triggered' # triggered /\ triggered' # "no" /\ auto_pause_delay_seconds > 0 =>
             /\ triggered' = "timer"
             /\ ExecutePendingAutoPause
             /\ timer_active /\ clock >= timer_expiry
             /\ TimerIdle']_vars

\* a timer started by a 4.8 V sample has expired after 0.2 s and paused capture
C13_Witness ==
    /\ triggered = "timer" /\ is_paused /\ pause_flag = 1 /\ device_open
    /\ auto_pause_threshold_enabled /\ auto_pause_delay_seconds = 2
    /\ auto_pause_metric = "voltage"
    /\ last_voltage = 48
    /\ clock >= 2
    /\ measurement_index >= 1

\* a step of auto-pause: samples are handled, or the delay timer fires
AutoPauseStep == PollQueue \/ ExecutePendingAutoPause

\* C14: no step of auto-pause resumes capture: while capture is paused, handling
\* samples (below the threshold or not) and an expiring timer leave the capture
\* state, the pause flag, the start time and the pending state as they are,
\* and no such step takes the pause flag from 1 to 0.
C14_AutoPauseNeverResumes ==
    [][/\ is_paused /\ AutoPauseStep =>
             /\ is_paused'
             /\ pause_flag' = pause_flag
             /\ start_time' = start_time
             /\ triggered' = triggered
             /\ TimerIdle /\ TimerIdle'
       /\ pause_flag = 1 /\ AutoPauseStep => pause_flag' = 1]_vars

\* a 4.8 V sample was handled against 5.0 V, without a delay, after capture was
\* started and paused: it is still paused, and nothing was recorded
C14_Witness ==
    /\ is_paused /\ pause_flag = 1 /\ device_open /\ triggered = "no"
    /\ start_time # NoTime /\ measurement_index = 0
    /\ auto_pause_threshold_enabled /\ auto_pause_delay_seconds = 0
    /\ auto_pause_metric = "voltage" /\ voltage_threshold = 50
    /\ last_voltage = 48
    /\ data_queue = <<>>

\* C15: a pending delay timer implies that auto-pause is enabled, the device is
\* connected and capture is running, and a (metric, threshold) pair is
\* remembered exactly while a timer is pending: after auto-pause is disabled,
\* after a disconnect (the operator's or the one an error payload starts) and
\* after a manual pause no timer is pending and nothing is remembered.
C15_TimerOnlyWhileArmed ==
    /\ timer_active => /\ auto_pause_threshold_enabled
                       /\ device_open
                       /\ ~is_paused
                       /\ pending_metric \in {"voltage", "current"}
                       /\ pending_threshold # Absent
                       /\ timer_expiry # NoTime
    /\ ~timer_active => TimerIdle

\* a disconnect has begun while a delay timer is pending
C15_Witness ==
    /\ timer_active
    /\ cpc = "join"
    /\ stop_event
    /\ pending_metric = "voltage" /\ pending_threshold = 50

\* the most recently observed value of the remembered metric
LastObserved == IF pending_metric = "voltage" THEN last_voltage ELSE last_current

\* C16: when the delay timer expires, capture is paused (is_paused, pause flag
\* 1) exactly when it is still running and the most recently observed value of
\* the remembered metric is present and strictly below the remembered
\* threshold; otherwise the capture state and the pause flag stay as they
\* are.  Either way no timer is pending and nothing is remembered afterwards.
C16_ExpiryRechecksLatestValue ==
    [][ExecutePendingAutoPause =>
          /\ TimerIdle'
          /\ IF ~is_paused /\ LastObserved # Absent /\ LastObserved < pending_threshold
                THEN is_paused' /\ pause_flag' = 1 /\ triggered' = "timer"
                ELSE /\ is_paused' = is_paused
                     /\ pause_flag' = pause_flag
                     /\ triggered' = triggered
          /\ UNCHANGED <<start_time, measurement_index, pending_measurements,
                         last_voltage, last_current, data_queue, stop_event>>]_vars

\* a timer started by a 4.8 V sample against 5.0 V has expired after the metric
\* was set to the current: it has paused capture on the remembered pair, with
\* a latest voltage of 4.8 V and a latest current of 2.0 A, not below 2.0 A
C16_Witness ==
    /\ triggered = "timer" /\ is_paused /\ pause_flag = 1 /\ device_open
    /\ TimerIdle
    /\ auto_pause_threshold_enabled
    /\ auto_pause_metric = "current" /\ current_threshold = 20
    /\ last_voltage = 48 /\ last_current = 20
    /\ measurement_index = 1 /\ data_queue = <<>>

\* every sample _poll_queue handles is below the threshold
AllBelow(q) == \A i \in 1..Len(Measured(q)) : IsBelow(Measured(q)[i].measurements)

\* the pending timer and the remembered pair are as they were
TimerKept ==
    /\ timer_active'
    /\ timer_expiry' = timer_expiry
    /\ pending_metric' = pending_metric
    /\ pending_threshold' = pending_threshold

\* C17, as stated: while a delay timer is pending, handling further samples
\* below the threshold leaves the timer pending with the same expiry time and
\* the same remembered (metric, threshold).
C17_PendingTimerUntouched ==
    [][(timer_active /\ AllBelow(data_queue) /\ PollQueue) => TimerKept]_vars

\* C17: while a delay timer is pending and the configured delay is still
\* positive, handling further samples below the threshold leaves the timer
\* pending with the same expiry time and the same remembered (metric,
\* threshold), and capture running: the first breach of the run fixes the
\* expiry.  With the delay set to 0 in the meantime, the first such sample
\* pauses capture at once, which cancels the timer and clears the pair.
C17_FirstBreachFixesExpiry ==
    [][(timer_active /\ AllBelow(data_queue) /\ PollQueue) =>
          IF auto_pause_delay_seconds > 0 \/ Measured(data_queue) = <<>>
             THEN TimerKept /\ is_paused' = is_paused
             ELSE TimerIdle' /\ is_paused' /\ triggered' = "sample"]_vars

\* a second 4.8 V sample was recorded 0.1 s or more after the first one started
\* the timer, which still expires 0.2 s after the first
C17_Witness ==
    /\ timer_active /\ ~is_paused /\ device_open
    /\ auto_pause_delay_seconds = 2
    /\ pending_metric = "voltage" /\ auto_pause_metric = "voltage"
    /\ last_voltage = 48
    /\ measurement_index = 2 /\ data_queue = <<>>
    /\ timer_expiry < clock + auto_pause_delay_seconds
    /\ clock < timer_expiry

\* the configured metric of a sample is absent
IsMissing(m) == ValueOf(auto_pause_metric, m) = Absent

\* C18: with auto-pause enabled and capture running, with or without a delay,
\* handling samples whose configured metric is absent never pauses capture
\* (the samples are recorded), and after a handled sample whose configured
\* metric is absent, with capture still running, no timer is pending and
\* nothing is remembered.
C18_AbsentValueCancels ==
    [][(auto_pause_threshold_enabled /\ ~is_paused
            /\ Measured(data_queue) # <<>> /\ PollQueue) =>
          /\ (\A i \in 1..Len(Measured(data_queue)) :
                  IsMissing(Measured(data_queue)[i].measurements)) =>
                /\ is_paused' = is_paused
                /\ pause_flag' = pause_flag
                /\ triggered' = triggered
                /\ measurement_index' = measurement_index + Len(Measured(data_queue))
          /\ IsMissing(LastSample(data_queue)) /\ ~is_paused' => TimerIdle']_vars

\* a sample without a voltage was recorded after a 4.8 V sample had been
\* recorded under a delay: capture is running and no timer is pending
C18_Witness ==
    /\ ~is_paused /\ device_open /\ triggered = "no" /\ TimerIdle
    /\ auto_pause_threshold_enabled /\ auto_pause_delay_seconds = 2
    /\ auto_pause_metric = "voltage" /\ voltage_threshold = 50
    /\ last_voltage = Absent /\ last_current = 5
    /\ measurement_index = 2 /\ data_queue = <<>>

\* ---- the start time ----

\* the record store is empty and its counters are 0
StoreReset ==
    /\ log_records = <<>> /\ measurement_records = <<>>
    /\ raw_log_records = <<>> /\ raw_measurement_records = <<>>
    /\ pending_records = <<>> /\ pending_measurements = <<>>
    /\ log_index = 0 /\ measurement_index = 0

\* a step that empties the record store before anything else: the clear (also
\* the one a reconnect asks for) and the import
StoreResetStep ==
    \/ ManualClear
    \/ ImportCsv
    \/ (ConnectDevice /\ log_records # <<>>)

\* C19: start_time is set by the resume that finds it unset, to the time of
\* that resume, and every resume leaves it set; once set it keeps its value
\* through every pause, resume, auto-pause, disconnect and reconnect, and it
\* returns to unset only in a step that resets the record store (a clear,
\* also the one a reconnect with records on display asks for, or an import).
C19_StartTimeSetOnce ==
    [][/\ start_time = NoTime /\ start_time' # NoTime =>
             /\ ToggleCollection
             /\ is_paused /\ ~is_paused'
             /\ start_time' = clock
       /\ is_paused /\ ~is_paused' => start_time' # NoTime
       /\ start_time # NoTime /\ start_time' # start_time =>
             /\ start_time' = NoTime
             /\ StoreResetStep
       /\ start_time' # NoTime => ~StoreResetStep]_vars

\* capture was started at an earlier time and a 5.2 V sample has paused it
\* against 20.0 V, after another sample was recorded: start_time is kept
C19_Witness ==
    /\ start_time # NoTime /\ start_time < clock
    /\ is_paused /\ device_open /\ pause_flag = 1
    /\ triggered = "sample"
    /\ auto_pause_threshold_enabled /\ voltage_threshold = 200
    /\ last_voltage = 52
    /\ measurement_index = 1

\* ---- sequence indices ----

\* the indices of the records of a buffer
IndicesOf(records) == {records[i].index : i \in 1..Len(records)}

\* the indices of a buffer rise from one record to the next
Increasing(records) ==
    \A i \in 1..Len(records) : \A j \in 1..Len(records) :
        i < j => records[i].index < records[j].index

\* the records after the first n of a buffer
After(records, n) == SubSeq(records, n + 1, Len(records))

\* the records after the first n of a buffer are numbered from + 1, from + 2, ...
NumberedFrom(records, n, from) ==
    \A i \in 1..(Len(records) - n) : records[n + i].index = from + i

\* each counter is at least every index its kind has in the record store
C20_CountersCoverIndices ==
    /\ \A i \in IndicesOf(raw_log_records) \cup IndicesOf(pending_records)
                  \cup IndicesOf(log_records) : i <= log_index
    /\ \A i \in IndicesOf(raw_measurement_records) \cup IndicesOf(pending_measurements)
                  \cup IndicesOf(measurement_records) : i <= measurement_index

\* the pending buffers only grow at the end, by records numbered from the
\* counter of their kind, and the counter follows
C20_AssignedAtPending ==
    /\ IsPrefix(pending_records, pending_records')
    /\ NumberedFrom(pending_records', Len(pending_records), log_index)
    /\ log_index' = log_index + Len(pending_records') - Len(pending_records)
    /\ IsPrefix(pending_measurements, pending_measurements')
    /\ NumberedFrom(pending_measurements', Len(pending_measurements), measurement_index)
    /\ measurement_index' = measurement_index
                               + Len(pending_measurements') - Len(pending_measurements)

\* C20: every record gets its index when it is put into the pending buffer of
\* its kind: the counter of the kind plus one, which is greater than every
\* index of that kind in the record store, captured or imported, so the
\* indices rise in buffer order and none is given twice.  The counters change
\* only there, in an import and in a reset of the store (not in a pause, a
\* resume, a disconnect or a reconnect without a clear), and the batch update
\* moves the pending records to the end of the raw buffer in their order.
C20_IndicesIncreaseWithinStore ==
    [][/\ C20_CountersCoverIndices /\ C20_CountersCoverIndices'
       /\ (data_queue # <<>> /\ PollQueue) => C20_AssignedAtPending
       /\ (pending_records' # pending_records
             \/ pending_measurements' # pending_measurements) =>
             \/ PollQueue
             \/ StoreResetStep
             \/ ImportAnyCsv
             \/ /\ BatchUpdateUi
                /\ raw_log_records' \o pending_records'
                      = raw_log_records \o pending_records
                /\ raw_measurement_records' \o pending_measurements'
                      = raw_measurement_records \o pending_measurements
       /\ (log_index' # log_index \/ measurement_index' # measurement_index) =>
             PollQueue \/ StoreResetStep \/ ImportAnyCsv
       /\ (Increasing(raw_log_records \o pending_records)
             /\ ~Increasing(raw_log_records' \o pending_records')) => ImportAnyCsv
       /\ (Increasing(raw_measurement_records \o pending_measurements)
             /\ ~Increasing(raw_measurement_records' \o pending_measurements')) =>
                ImportAnyCsv]_vars

\* a PD record was captured after the import of a file whose two PD rows carry
\* the indices 2 and 1: it has the index 3
C20_Witness ==
    /\ Len(raw_log_records) = 2
    /\ raw_log_records[1].index = 2 /\ raw_log_records[2].index = 1
    /\ Len(pending_records) = 1
    /\ pending_records[1].index = 3
    /\ log_index = 3

\* C22 as stated: every payload in the queue carries exactly one of the packet,
\* the measurements and the error
C22_ExactlyOneCarrier ==
    \A i \in 1..Len(data_queue) :
        Cardinality({f \in {"data", "measurements", "error"} : data_queue[i][f] # None}) = 1

\* C22: an error payload carries no packet and no measurements, a payload with
\* a PD packet carries no measurements, and a payload with measurements carries
\* the packet they were read from, which is not a PD packet
C22_PayloadShapes ==
    \A i \in 1..Len(data_queue) :
        LET payload == data_queue[i] IN
            IF payload.error # None
               THEN payload.data = None /\ payload.measurements = None
               ELSE /\ payload.data # None
                    /\ IsPdPacket(payload.data) => payload.measurements = None
                    /\ payload.measurements # None => ~IsPdPacket(payload.data)
                    /\ ~IsPdPacket(payload.data) => payload.measurements # None

\* a measurement payload is in the queue behind a PD payload, or an error payload is
C22_Witness ==
    /\ \E i \in 1..Len(data_queue) : data_queue[i].measurements # None
    /\ \E i \in 1..Len(data_queue) :
          IsPdPacket(data_queue[i].data) \/ data_queue[i].error # None

\* where in decoded_log the payloads taken from the queue, and then the ones
\* still in it, were decoded
PayloadPlaces == [i \in 1..Len(dequeued_log) |-> dequeued_log[i][1]] \o queued_log

\* C21: within one worker the payloads the consumer takes from the queue, in
\* the order it takes them, are packets the worker decoded, each taken at most
\* once and in decode order
C21_DequeuedInDecodeOrder ==
    /\ \A i \in 1..Len(PayloadPlaces) : PayloadPlaces[i] \in 1..Len(decoded_log)
    /\ \A i, j \in 1..Len(PayloadPlaces) : i < j => PayloadPlaces[i] < PayloadPlaces[j]
    /\ \A i \in 1..Len(dequeued_log) :
          dequeued_log[i][2] = decoded_log[dequeued_log[i][1]]

\* the first and the third decoded packet were taken, the second never was
C21_Witness ==
    /\ Len(decoded_log) = 3
    /\ Len(dequeued_log) = 2
    /\ dequeued_log[1][1] = 1
    /\ dequeued_log[2][1] = 3
    /\ queued_log = <<>>

\* a string of bits only
IsBinary(b) == \A i \in 1..Len(b) : b[i] \in {"0", "1"}

\* the value of a string of bits, most significant bit first
RECURSIVE BinaryValue(_)
BinaryValue(b) ==
    IF b = <<>> THEN 0
    ELSE 2 * BinaryValue(SubSeq(b, 1, Len(b) - 1)) + (IF b[Len(b)] = "1" THEN 1 ELSE 0)

\* the value of an upper-case hex digit, Absent for any other character
HexDigitValue(c) ==
    IF \E n \in 0..15 : HexChars[n + 1] = c
       THEN CHOOSE n \in 0..15 : HexChars[n + 1] = c
       ELSE Absent

\* the value of a string of upper-case hex digits
RECURSIVE HexValue(_)
HexValue(h) ==
    IF h = <<>> THEN 0
    ELSE 16 * HexValue(SubSeq(h, 1, Len(h) - 1)) + HexDigitValue(h[Len(h)])

\* the least w with 4 * w >= n
CeilQuarter(n) == CHOOSE w \in 0..n : 4 * w >= n /\ (w = 0 \/ 4 * (w - 1) < n)

\* "0x" and exactly ceil(len(b)/4) upper-case hex digits of the value of b
RendersBits(b, out) ==
    /\ Len(out) = 2 + CeilQuarter(Len(b))
    /\ out[1] = "0"
    /\ out[2] = "x"
    /\ \A i \in 3..Len(out) : HexDigitValue(out[i]) # Absent
    /\ HexValue(SubSeq(out, 3, Len(out))) = BinaryValue(b)

\* C24: _bits_to_hex of a non-empty string of bits is "0x" and exactly
\* ceil(len/4) upper-case hex digits with the value of the bits, and of an empty
\* string or a string that is not all bits it is the empty string
C24_BitsToHexContract ==
    call.fn = "_bits_to_hex" /\ call.done =>
        IF call.arg # <<>> /\ IsBinary(call.arg)
           THEN RendersBits(call.arg, call.result)
           ELSE call.result = <<>>

\* the part of C24 that holds: strings of bits are rendered as claimed, the
\* empty string and the strings int() rejects give the empty string
C24_BitStringsRendered ==
    call.fn = "_bits_to_hex" /\ call.done =>
        /\ (call.arg # <<>> /\ IsBinary(call.arg)) => RendersBits(call.arg, call.result)
        /\ (call.arg = <<>> \/ ~IntBase2(call.arg).ok) => call.result = <<>>

\* "000101" gives "0x05"
C24_Scenario ==
    /\ call.fn = "_bits_to_hex"
    /\ call.done
    /\ call.arg = <<"0", "0", "0", "1", "0", "1">>
    /\ call.result = <<"0", "x", "0", "5">>

\* "1_1", which is not a string of bits, gives "0x3"
C24_SeparatorAccepted ==
    /\ call.fn = "_bits_to_hex"
    /\ call.done
    /\ call.arg = <<"1", "_", "1">>
    /\ call.result = <<"0", "x", "3">>

\* the object list a parse_pdo call was given, when it is a readable,
\* non-empty list
PdoObjectsOf(c) == PdoSlot(c.arg.data).items

ValidPdoCall(c) ==
    /\ c.fn = "parse_pdo"
    /\ c.done
    /\ ~c.arg.data.none
    /\ PdoSlot(c.arg.data).kind = "list"

\* the source positions (from 1) of the objects that are no placeholders
Emitted(objects) == {i \in 1..Len(objects) : objects[i].value # "Empty PDO"}

\* the k-th least element of a set of numbers
RECURSIVE Kth(_, _)
Kth(S, k) ==
    LET least == CHOOSE x \in S : \A y \in S : x <= y IN
    IF k = 1 THEN least ELSE Kth(S \ {least}, k - 1)

\* one entry per object that is no placeholder, in source order
OneEntryPerObject(objects, entries) ==
    /\ Len(entries) = Len(objects) - Cardinality({i \in 1..Len(objects) :
                                                     objects[i].value = "Empty PDO"})
    /\ \A k \in 1..Len(entries) :
          LET obj == objects[Kth(Emitted(objects), k)] IN
              /\ entries[k].summary = (IF obj.quick_pdo = Raises THEN "" ELSE obj.quick_pdo)
              /\ entries[k].raw = BitsToHex(IF obj.raw.raises THEN <<>> ELSE obj.raw.bits)

\* C23 as stated: one entry per object that is no placeholder, in source order,
\* and the positions of the entries are 1, 2, ..., k
C23_PositionsContiguous ==
    ValidPdoCall(call) =>
        /\ OneEntryPerObject(PdoObjectsOf(call), call.result)
        /\ \A k \in 1..Len(call.result) : call.result[k].index = Str(k)

\* C23: parse_pdo emits one entry per object that is no placeholder, in source
\* order, and the position of an entry is the 1-based place of its object in
\* the object list, so the positions increase and skip the placeholders
C23_PositionsAreSourcePlaces ==
    ValidPdoCall(call) =>
        /\ OneEntryPerObject(PdoObjectsOf(call), call.result)
        /\ \A k \in 1..Len(call.result) :
              call.result[k].index = Str(Kth(Emitted(PdoObjectsOf(call)), k))

\* a placeholder between two other objects: the entries are at 1 and 3
C23_Witness ==
    /\ ValidPdoCall(call)
    /\ PdoObjectsOf(call) = <<FixedPdo, EmptyPdo, FixedPdo>>
    /\ Len(call.result) = 2
    /\ call.result[1].index = <<"1">>
    /\ call.result[2].index = <<"3">>

CableCall(c) == c.fn = "CableDataParser.parse" /\ c.done

\* the gates of CableDataParser.parse: a Vendor_Defined message on SOP' or
\* SOP'' whose first data object is a VDM Header of a structured VDM that
\* acknowledges Discover Identity
AllGatesPass(pkg) ==
    /\ ~pkg.none
    /\ pkg.header = "present"
    /\ pkg.msg_type = "Vendor_Defined"
    /\ pkg.sop \in {"SOP'", "SOP''"}
    /\ pkg.vdm.kind = "list"
    /\ pkg.vdm.items # <<>>
    /\ pkg.vdm.items[1].field = "VDM Header"
    /\ pkg.vdm.items[1].values[1] = "Structured"
    /\ pkg.vdm.items[1].values[2] = "Discover Identity"
    /\ pkg.vdm.items[1].values[3] = "ACK"

\* C25: parse returns None for every packet that fails a gate, and a row list,
\* which is never empty, only for a packet that passes all of them
C25_GatesDecide ==
    CableCall(call) =>
        /\ ~AllGatesPass(call.arg.data) => call.result.kind = "none"
        /\ call.result.kind = "rows" =>
              AllGatesPass(call.arg.data) /\ call.result.rows # <<>>

\* the calls that end in an exception: value() of the Data Objects raises, or
\* field() of an entry does, behind a header, SOP* and message type that pass
RaisesInGate(pkg) ==
    /\ ~pkg.none
    /\ pkg.header = "present"
    /\ pkg.msg_type = "Vendor_Defined"
    /\ pkg.sop \in {"SOP'", "SOP''"}
    /\ \/ pkg.vdm.kind = "raises"
       \/ pkg.vdm.kind = "list" /\ pkg.vdm.items # <<>> /\ pkg.vdm.items[1].field = Raises

\* the part of C25 that holds: the gates decide for every packet but those
\* whose Data Objects or first entry cannot be read, and for these parse raises
C25_GatesDecideWhenReadable ==
    CableCall(call) =>
        /\ RaisesInGate(call.arg.data) => call.result.kind = "raised"
        /\ (~AllGatesPass(call.arg.data) /\ ~RaisesInGate(call.arg.data)) =>
              call.result.kind = "none"
        /\ call.result.kind = "rows" =>
              AllGatesPass(call.arg.data) /\ call.result.rows # <<>>

\* a packet on SOP' whose first data object cannot be read: parse raises
C25_UnreadableFirstEntry ==
    /\ CableCall(call)
    /\ call.arg.data.vdm.kind = "list"
    /\ call.arg.data.vdm.items # <<>>
    /\ call.arg.data.vdm.items[1].field = Raises
    /\ call.result.kind = "raised"

\* an entry with this field() is among the data objects
HasVdo(pkg, field) == \E i \in 1..Len(pkg.vdm.items) : pkg.vdm.items[i].field = field

\* the cable type rows of a result, by place
CableTypeAt(rows) == {i \in 1..Len(rows) : rows[i][1] = "cable_type"}

\* the type the priority passive > active > VPD selects
SelectedType(pkg) ==
    IF HasVdo(pkg, "Passive Cable VDO") THEN "cable_type_passive"
    ELSE IF HasVdo(pkg, "Active Cable VDO 1") THEN "cable_type_active"
    ELSE IF HasVdo(pkg, "VPD VDO") THEN "cable_type_vpd"
    ELSE None

\* the keys of the rows a cable type brings
KeysOfType(type) ==
    CASE type = "cable_type_passive" -> {PassiveKeys[i] : i \in 1..Len(PassiveKeys)}
      [] type = "cable_type_active" ->
             {ActiveKeys[i] : i \in 1..Len(ActiveKeys)} \cup {"cable_sbu"}
                 \cup {SecondaryKeys[i] : i \in 1..Len(SecondaryKeys)}
      [] type = "cable_type_vpd" -> {VpdKeys[i] : i \in 1..Len(VpdKeys)}
      [] OTHER -> {}

\* the values of the fields of the VDO of a type, as _fmt gives them
ValuesOfType(pkg, type) ==
    LET from(field) ==
            UNION {{Fmt(GetValue(pkg.vdm.items[i].values[k])) :
                       k \in 1..Len(pkg.vdm.items[i].values)} :
                   i \in {j \in 1..Len(pkg.vdm.items) : pkg.vdm.items[j].field = field}} IN
    CASE type = "cable_type_passive" -> from("Passive Cable VDO")
      [] type = "cable_type_active" -> from("Active Cable VDO 1") \cup from("Active Cable VDO 2")
      [] type = "cable_type_vpd" -> from("VPD VDO")
      [] OTHER -> {}

\* C26: a returned row list has at most one cable_type row, the one the
\* priority passive > active > VPD selects; the rows behind it are fields of
\* the selected VDO only; and no row has an empty or absent value
C26_OneCableTypeByPriority ==
    (CableCall(call) /\ call.result.kind = "rows") =>
        LET rows == call.result.rows
            pkg == call.arg.data
        IN  /\ Cardinality(CableTypeAt(rows)) <= 1
            /\ (SelectedType(pkg) = None) = (CableTypeAt(rows) = {})
            /\ \A i \in CableTypeAt(rows) :
                  /\ rows[i][2] = SelectedType(pkg)
                  /\ \A j \in (i + 1)..Len(rows) :
                        /\ rows[j][1] \in KeysOfType(SelectedType(pkg))
                        /\ rows[j][2] \in ValuesOfType(pkg, SelectedType(pkg))
            /\ \A i \in 1..Len(rows) : rows[i][2] \notin {"", None}

\* all three kinds of VDO are in the packet: the rows are those of the passive
\* cable, and the fields without a value are left out
C26_Witness ==
    /\ CableCall(call)
    /\ call.result.kind = "rows"
    /\ HasVdo(call.arg.data, "Passive Cable VDO")
    /\ HasVdo(call.arg.data, "Active Cable VDO 1")
    /\ HasVdo(call.arg.data, "VPD VDO")
    /\ \E i \in CableTypeAt(call.result.rows) :
          /\ call.result.rows[i][2] = "cable_type_passive"
          /\ Len(call.result.rows) = i + 2

RdoCall(c) == c.fn = "parse_rdo" /\ c.done

\* the packet is missing, its object list cannot be read or is empty, or the
\* quick summary of its first object fails or is "Not a RDO"
NoRdoSummary(pkg) ==
    \/ pkg.none
    \/ pkg.slot3.kind # "list"
    \/ pkg.slot3.items = <<>>
    \/ pkg.slot3.items[1].quick_rdo \in {Raises, "Not a RDO"}

PollCall(c) == c.fn = "_poll_queue" /\ c.done

\* C27: parse_rdo always returns a summary, which is "Invalid RDO" whenever
\* the packet is missing, the object list is unreadable or empty, or the quick
\* summary fails or is "Not a RDO"; and the consumer stores no RDO record with
\* the summary "Invalid RDO" and no PDO record with an empty summary
C27_InvalidRdoNeverStored ==
    /\ RdoCall(call) =>
          /\ call.result.summary \notin {"", None}
          /\ NoRdoSummary(call.arg.data) => call.result.summary = "Invalid RDO"
    /\ \A i \in 1..Len(pending_records) :
          /\ pending_records[i].type = "RDO" =>
                pending_records[i].summary \notin {<<"Invalid RDO">>, <<"">>, <<>>}
          /\ pending_records[i].type = "PDO" =>
                /\ pending_records[i].summary # <<>>
                /\ \A k \in 1..Len(pending_records[i].summary) :
                      pending_records[i].summary[k] \notin {"", " "}

\* a request that is no RDO and a source capabilities message with blank
\* summaries only were handled, and nothing was stored
C27_Witness ==
    /\ PollCall(call)
    /\ ~call.result
    /\ call.arg = <<DecoderPayload(Request(<<NotRdo>>)),
                    DecoderPayload(SourceCaps(<<BlankPdo, UnreadablePdo>>))>>
    /\ ~is_paused
    /\ pending_records = <<>>

\* the records one payload adds when it is handled alone
RecordsOf(payload) == HandleDecoded(payload).records

\* the part of C28 that rests on this repository: a packet the library takes
\* for capabilities is never PDO-bearing when it is a sink capabilities
\* message, and a packet the library takes for one kind only adds at most one
\* record
C28_ExclusiveWhenLibraryIs ==
    PollCall(call) =>
        \A i \in 1..Len(call.arg) :
            LET pkg == call.arg[i].data IN
                /\ IsSinkCap(pkg) => ~IsPdoPacketOf(pkg)
                /\ ~(pkg.is_pdo = "true" /\ pkg.is_rdo = "true") =>
                      /\ ~(IsPdoPacketOf(pkg) /\ IsRdoPacketOf(pkg))
                      /\ Len(RecordsOf(call.arg[i])) <= 1

\* a packet that is_pdo and is_rdo of the library both accept adds two records
C28_BothWhenLibrarySaysBoth ==
    /\ PollCall(call)
    /\ Len(call.arg) = 1
    /\ call.arg[1].data.is_pdo = "true"
    /\ call.arg[1].data.is_rdo = "true"
    /\ ~is_paused
    /\ Len(pending_records) = 2

\* C29: no failure of a call of the device library leaves a decoder function,
\* so _poll_queue handles every payload of the queue in one run of its loop
C29_NoFailurePropagates ==
    /\ CableCall(call) => call.result.kind # "raised"
    /\ PollCall(call) => ~call.result /\ data_queue = <<>>

\* the part of C29 that holds: the loop is left early only by a payload for
\* which CableDataParser.parse raises, and the payloads behind it stay queued
C29_AbortsOnlyOnCableParse ==
    PollCall(call) =>
        LET raising == {i \in 1..Len(call.arg) :
                            CableParse(call.arg[i]).kind = "raised"} IN
            IF is_paused \/ raising = {}
               THEN ~call.result /\ data_queue = <<>>
               ELSE /\ call.result
                    /\ \E i \in raising :
                          /\ \A j \in raising : i <= j
                          /\ data_queue = SubSeq(call.arg, i + 1, Len(call.arg))

\* the loop was left at the first payload and the request behind it is still
\* in the queue
C29_RequestLeftBehind ==
    /\ PollCall(call)
    /\ call.result
    /\ data_queue = <<DecoderPayload(Request(<<FixedRdo>>))>>
    /\ pending_records = <<>>

\* a relative time rounded to three decimals, in tenths of a millisecond
Rounded3(t) == ((t + 5) \div 10) * 10

\* what the round trip is to keep of a record
KeptOf(record) ==
    <<record.index, Rounded3(record.relative_time), record.type,
      IF record.type = "MEASUREMENT" THEN "" ELSE record.summary>>

KeptOfAll(records) == [i \in 1..Len(records) |-> KeptOf(records[i])]

\* the export has run and its file has been imported
Imported == call.fn = "_import_csv"

\* C30: exporting the N raw records of a store and importing the rows written
\* gives N raw records again, in the same order, each with the index, the
\* relative time rounded to three decimals, the kind and the summary it had
C30_RoundTrip ==
    Imported =>
        /\ Len(raw_log_records) + Len(raw_measurement_records)
               = Len(call.arg.pd) + Len(call.arg.measurements)
        /\ KeptOfAll(raw_log_records) = KeptOfAll(call.arg.pd)
        /\ KeptOfAll(raw_measurement_records) = KeptOfAll(call.arg.measurements)

\* C30, where no measurement record holds None: the round trip keeps the records
C30_RoundTripOfFullSamples ==
    (Imported /\ \A i \in 1..Len(call.arg.measurements) :
                     ~Unformattable(call.arg.measurements[i])) =>
        /\ ~call.result
        /\ KeptOfAll(raw_log_records) = KeptOfAll(call.arg.pd)
        /\ KeptOfAll(raw_measurement_records) = KeptOfAll(call.arg.measurements)

\* C30: a round trip of PD and measurement records that kept them all
C30_Scenario ==
    /\ Imported
    /\ ~call.result
    /\ Len(raw_log_records) = MaxExported
    /\ Len(raw_measurement_records) = MaxExported
    /\ \E i \in 1..Len(call.arg.pd) :
           call.arg.pd[i].relative_time # raw_log_records[i].relative_time

\* C30: the export stopped at a record without a voltage, and the import of
\* the file it left has fewer records than the store had
C30_RecordsLost ==
    /\ Imported
    /\ call.result
    /\ Len(raw_measurement_records) < Len(call.arg.measurements)

\* the stored configuration has all five fields within range
SettingsInRange ==
    /\ auto_pause_threshold_enabled \in BOOLEAN
    /\ auto_pause_metric \in {"voltage", "current"}
    /\ voltage_threshold \in 0..VoltageLimit
    /\ current_threshold \in 0..CurrentLimit
    /\ auto_pause_delay_seconds \in 0..DelayLimit

\* the dialog has just been answered
DialogAnswered == call' # call /\ call'.fn = "_show_auto_pause_settings"

\* the values typed are all numbers within the limits
EntryInRange(entry) ==
    /\ entry.voltage \in 0..VoltageLimit
    /\ entry.current \in 0..CurrentLimit
    /\ entry.delay \in 0..DelayLimit

\* C31: a configuration with a value outside its range is rejected and leaves
\* the stored configuration and a pending delay timer as they were; an accepted
\* configuration is stored with all five fields within range
C31_OutOfRangeRejected ==
    [][DialogAnswered =>
          /\ ~EntryInRange(call'.arg) =>
                /\ call'.result # "accepted"
                /\ UNCHANGED <<settingsVars, timer_active, timer_expiry, pending_metric,
                               pending_threshold>>
          /\ call'.result = "accepted" => SettingsInRange']_vars

\* C31, for values that are numbers or no numbers at all: rejected exactly if
\* one is outside its range, nothing changed then, and stored within range
C31_NumbersChecked ==
    [][(DialogAnswered /\ NaN \notin {call'.arg.voltage, call'.arg.current,
                                       call'.arg.delay}) =>
          /\ (call'.result = "accepted") = EntryInRange(call'.arg)
          /\ call'.result # "accepted" =>
                UNCHANGED <<settingsVars, timer_active, timer_expiry, pending_metric,
                            pending_threshold>>
          /\ call'.result = "accepted" => SettingsInRange']_vars

\* C31: a rejected dialog while a delay timer is pending
C31_RejectedWhilePending ==
    /\ call.fn = "_show_auto_pause_settings"
    /\ call.result = "delay range"
    /\ timer_active
    /\ auto_pause_threshold_enabled

\* C31: nan typed as the voltage threshold has been accepted and stored
C31_NanStored ==
    /\ call.fn = "_show_auto_pause_settings"
    /\ call.result = "accepted"
    /\ voltage_threshold = NaN

\* C32: the queue drain only appends to the pending buffers and changes
\* neither the raw nor the visible buffers; a batch tick moves the pending
\* records of each kind, in order, to the end of that kind's raw buffer and
\* leaves the pending buffer empty, and a batch of one kind leaves the buffers
\* of the other kind as they were
C32_DrainAppendsBatchMoves ==
    [][/\ (cpc = "idle" /\ device_open /\ PollQueue) =>
              /\ IsPrefix(pending_records, pending_records')
              /\ IsPrefix(pending_measurements, pending_measurements')
              /\ UNCHANGED <<raw_log_records, raw_measurement_records, log_records,
                             measurement_records>>
       /\ (cpc = "idle" /\ BatchUpdateUi) =>
              /\ raw_log_records' = raw_log_records \o pending_records
              /\ raw_measurement_records' = raw_measurement_records \o pending_measurements
              /\ pending_records' = <<>>
              /\ pending_measurements' = <<>>
              /\ pending_records = <<>> => UNCHANGED <<raw_log_records, log_records>>
              /\ pending_measurements = <<>> =>
                     UNCHANGED <<raw_measurement_records, measurement_records>>]_vars

\* C32: a batch has moved a record of each kind to the raw buffers, and a
\* later drain has put a PD record into the pending buffer
C32_Witness ==
    /\ Len(raw_log_records) = 1
    /\ Len(raw_measurement_records) = 1
    /\ Len(pending_records) = 1
    /\ pending_records[1].index = 2

\* the consumer is disconnected and not inside a teardown
Disconnected == ~device_open /\ cpc = "idle"

\* C33: after the teardown of a disconnect the device is closed, the capture
\* paused, the stop flag set, no delay timer pending and the queue drained;
\* while disconnected the queue stays empty and no payload is handled; a
\* connect starts with an empty queue, the stop flag clear and the pause flag
\* set, so nothing of an earlier connection is in the queue of a later one
C33_TeardownLeavesNothing ==
    /\ [](Disconnected => data_queue = <<>> /\ is_paused /\ ~timer_active)
    /\ [][/\ (cpc = "join" /\ JoinReturn) =>
                 /\ ~device_open' /\ is_paused' /\ stop_event' /\ ~timer_active'
                 /\ data_queue' = <<>>
          /\ (Disconnected /\ ~device_open') =>
                 /\ Len(pending_records') <= Len(pending_records)
                 /\ Len(pending_measurements') <= Len(pending_measurements)
                 /\ UNCHANGED <<last_voltage, last_current, is_paused, pause_flag,
                                stop_event>>
          /\ (Disconnected /\ device_open') =>
                 /\ data_queue' = <<>> /\ ~stop_event' /\ pause_flag' = 1 /\ is_paused'
                 /\ wpc' = "open"]_vars

\* C33: the teardown after an error payload, of a session in which the last
\* sample started a delay timer and a payload was still in the queue
C33_Witness ==
    /\ Disconnected
    /\ stop_event
    /\ wpc = "ended"
    /\ pause_flag = 0
    /\ auto_pause_threshold_enabled
    /\ auto_pause_delay_seconds > 0
    /\ auto_pause_metric = "current"
    /\ last_current # Absent /\ last_current < current_threshold
    /\ pending_measurements # <<>>

\* C34: while the device is connected is_paused holds exactly when the shared
\* pause flag is 1, after every toggle by the operator and every pause by the
\* auto-pause; and a connect leaves the capture paused with the flag at 1
C34_PauseFlagAgrees ==
    /\ [](device_open => (is_paused <=> pause_flag = 1))
    /\ [](pause_flag \in {0, 1})
    /\ [][(~device_open /\ device_open') => (is_paused' /\ pause_flag' = 1)]_vars

\* C34: a running capture that the auto-pause has paused on a sample
C34_Witness ==
    /\ device_open
    /\ is_paused
    /\ pause_flag = 1
    /\ triggered = "sample"
    /\ measurement_index > 0

\* C34: a connect after a session that was disconnected while it ran, the
\* flag of the old connection still 0
C34_ReconnectWitness ==
    /\ ~device_open
    /\ cpc = "idle"
    /\ pause_flag = 0
    /\ stop_event

\* the payloads without an error: a packet of any kind or none, with a sample
\* of any kind or none
PayloadsWithoutError ==
    {[data |-> d, measurements |-> m, error |-> None] :
        d \in {None, "pdo", "rdo", "general"}, m \in {None, "vi", "low", "nov"}}

\* what handling a payload must leave alone while the capture is paused
CaptureOf(cs) ==
    <<cs.pending_records, cs.pending_measurements, cs.log_index, cs.measurement_index,
      cs.timer_active, cs.timer_expiry, cs.pending_metric, cs.pending_threshold,
      cs.is_paused, cs.pause_flag, cs.start_time>>

\* C35: while the capture is paused, handling a payload without an error adds
\* no record, changes no index and starts no delay timer, whatever the payload
\* and whatever else a poll finds in the queue; while disconnected no poll
\* handles anything; and a poll that finds an error payload starts the
\* teardown, paused or not
C35_PausedHandlesNothing ==
    /\ [](is_paused => \A payload \in PayloadsWithoutError :
              CaptureOf(HandlePayload(CState, payload)) = CaptureOf(CState))
    /\ [][/\ (is_paused /\ PollQueue) =>
                 /\ UNCHANGED <<pending_records, pending_measurements, raw_log_records,
                                raw_measurement_records, log_records, measurement_records,
                                log_index, measurement_index, timer_active, timer_expiry,
                                is_paused, pause_flag>>
          /\ (~device_open /\ data_queue # <<>>) => ~PollQueue
          /\ (PollQueue /\ \E i \in 1..Len(data_queue) : data_queue[i].error # None) =>
                 cpc' = "join" /\ stop_event']_vars

\* C35: a paused, connected consumer has handled a sample that is below the
\* enabled threshold: the sample is remembered and the queue is empty, and no
\* record was made of it
C35_Witness ==
    /\ device_open /\ is_paused /\ cpc = "idle"
    /\ auto_pause_threshold_enabled
    /\ auto_pause_metric = "voltage"
    /\ last_voltage # Absent /\ last_voltage < voltage_threshold
    /\ data_queue = <<>>
    /\ measurement_index = 0
    /\ pending_measurements = <<>>
    /\ triggered = "no"

\* C35: a paused consumer is in the teardown that an error payload started
C35_ErrorWitness ==
    /\ device_open /\ is_paused /\ cpc = "join"
    /\ wpc = "ended"
    /\ measurement_index = 0

\* the capture is running: the device is connected and the capture not paused
Running == device_open /\ ~is_paused

\* C36: whenever the capture is running the start time is set
C36_RunningHasStartTime == Running => start_time # NoTime

\* C36: a capture starts running with the start time set, and a running
\* capture loses its start time in a manual clear or an import, nowhere else
C36_UnsetByClearOnly ==
    [][/\ (~Running /\ Running') => start_time' # NoTime
       /\ (Running /\ Running' /\ start_time # NoTime /\ start_time' = NoTime) =>
              ManualClear \/ ImportCsv]_vars

\* C36: the capture runs after a manual clear or an import, the start time
\* unset, and a sample handled since has been numbered 1
C36_RunningWithoutStartTime ==
    /\ Running
    /\ start_time = NoTime
    /\ measurement_index = 1
    /\ Len(pending_measurements) = 1

\* the elements of a sequence
Range(seq) == {seq[i] : i \in 1..Len(seq)}

\* the PD records the consumer holds: pending, raw and visible
StoredPdRecords == Range(pending_records) \cup Range(raw_log_records) \cup Range(log_records)

\* the measurement records the consumer holds: pending, raw and visible
StoredMeasurementRecords ==
    Range(pending_measurements) \cup Range(raw_measurement_records)
        \cup Range(measurement_records)

\* C37: every stored record has a relative time of 0 or more, whatever the
\* order of the steps of the worker and of the consumer
C37_RelativeTimeNotNegative ==
    \A record \in StoredPdRecords \cup StoredMeasurementRecords : record.relative_time >= 0

\* C37: a measurement record is timed by the consumer when it handles the
\* sample, so its relative time is 0 or more; and no record is later than the
\* clock
C37_MeasurementTimes ==
    /\ \A record \in StoredMeasurementRecords : record.relative_time >= 0
    /\ \A record \in StoredPdRecords \cup StoredMeasurementRecords :
           start_time # NoTime /\ record.relative_time <= clock - start_time

\* C37: a PD record that was stamped by the worker before the capture started
\* and let through by the pause check after it
C37_NegativeRelativeTime ==
    \E record \in Range(raw_log_records) : record.relative_time < 0

\* C38: every measurement record in the raw buffer has its voltage, its
\* current and its power, so that the export can format each of them
C38_MeasurementsComplete ==
    \A record \in Range(raw_measurement_records) : ~Unformattable(record)

\* C38: what is missing in a record is the voltage and the power of a sample
\* that came without VBus; the current of a stored record is never missing here
C38_CurrentPresent ==
    \A record \in StoredMeasurementRecords :
        /\ record.current # Absent
        /\ record.power = Absent <=> record.voltage = Absent

\* C38: a sample without VBus is in the raw buffer, its voltage and power None
C38_RecordWithoutVoltage ==
    \E record \in Range(raw_measurement_records) :
        record.voltage = Absent /\ record.power = Absent /\ record.current # Absent

\* the latest sample is below the threshold of the given metric
Breach(metric, threshold) ==
    LET value == IF metric = "voltage" THEN last_voltage ELSE last_current
    IN  ~IsNone(value) /\ BelowThreshold(value, threshold)

\* the latest sample is below the threshold as the settings have it now
ConfiguredBreach ==
    Breach(auto_pause_metric,
           IF auto_pause_metric = "voltage" THEN voltage_threshold ELSE current_threshold)

\* the delay timer fires on a running capture with the auto-pause enabled
TimerFires ==
    /\ timer_active /\ clock >= timer_expiry /\ cpc = "idle"
    /\ auto_pause_threshold_enabled /\ ~is_paused
    /\ ExecutePendingAutoPause

\* C39: when the delay timer fires, the capture is paused exactly if the latest
\* sample is below the threshold of the metric as they are configured then
C39_ExpiryUsesConfigured == [][TimerFires => (is_paused' <=> ConfiguredBreach)]_vars

\* C39: when the delay timer fires, the capture is paused exactly if the latest
\* sample is below the threshold remembered for the metric remembered when the
\* timer was started
C39_ExpiryUsesRemembered ==
    [][TimerFires => (is_paused' <=> Breach(pending_metric, pending_threshold))]_vars

\* C39: the timer has paused the capture on a voltage below its threshold
\* while the settings name the current, which is not below its threshold
C39_PausedOnOldMetric ==
    /\ device_open /\ is_paused
    /\ triggered = "timer"
    /\ auto_pause_threshold_enabled
    /\ auto_pause_metric = "current"
    /\ ~ConfiguredBreach
    /\ Breach("voltage", voltage_threshold)

\* C40: the rows of the PD record table are the visible PD records, one row a
\* record, in the same order
C40_TableShowsVisible == table = IndexColumn(log_records)

\* C40: the table has as many rows as there are visible PD records, its last
\* row is the newest visible record, and all is well until the first roll-over
C40_TableBeforeRollOver ==
    /\ Len(table) = Len(log_records)
    /\ log_records # <<>> => table[Len(table)] = log_records[Len(log_records)].index
    /\ Len(raw_log_records) <= ui_log_limit => table = IndexColumn(log_records)

\* C40: after a roll-over the first row still shows record 1, which has left
\* the visible buffer, and no row shows the visible record 2
C40_RowOfEvictedRecord ==
    /\ Len(log_records) = 2
    /\ log_records[1].index = 2
    /\ table[1] = 1
    /\ table[2] = 3

====
